---- MODULE Spec2Model ----
(***************************************************************************)
(* Model of the black-hole-diver application: the preview render manager   *)
(* (src/src/preview_manager.rs) and the keyframed timeline                 *)
(* (src/src/timeline.rs).                                                  *)
(***************************************************************************)
EXTENDS Integers, Sequences, FiniteSets, Bags, TLC

(***************************************************************************)
(* Bounds                                                                  *)
(***************************************************************************)
\* number of preview render tasks that may be spawned in one behaviour
MaxTasks == 3
\* number of distinct preview resolutions the UI may ask for
MaxResolution == 2
\* frames the timeline operations are exercised on: 0..MaxFrame
MaxFrame == 3
\* number of export threads (single frames and animations) existing at once
MaxExports == 2
\* number of frames of the longest animation handed to the export renderer
MaxAnimationFrames == 2
\* number of cancel messages that may wait in one cancel channel
MaxCancels == 1
\* number of rounds of render() and recv() the owner of a RenderWorker makes
MaxRounds == 2
\* the largest super sampling factor of a render
MaxSuperSampling == 2
\* number of threads of the pool that computes the pixels of a render
MaxPoolThreads == 2
\* number of steps the half turn is divided into for the angles of a ray
MaxAngleSteps == 6
\* the components of the vectors handed to look_at: -MaxComponent..MaxComponent
MaxComponent == 1
\* the widths and heights of images: 0..MaxDimension, and as far above 2^31
MaxDimension == 4
\* initial radii of the diver: 0..MaxRadius
MaxRadius == 4
\* the proper time a frame of the animation of the diver takes at most
MaxDt == 2
\* the time of the last update of the timeline, in frames
MaxElapsed == 4

(***************************************************************************)
(* Values                                                                  *)
(***************************************************************************)
\* Option<T>: None is the empty sequence, Some(x) the one-element sequence
None == <<>>

Some(x) == <<x>>

\* Scene: the linearly interpolated scalar of the camera (fov, fixed point in
\* units of 30 degrees) and the gr flag; Scene::default() has fov = 60 degrees
\* and gr = true
DefaultFov == 2

OtherFov == 4

SceneDefault == [fov |-> DefaultFov, gr |-> TRUE]

\* scenes a caller may hand in
InputScenes == {SceneDefault, [fov |-> OtherFov, gr |-> TRUE]}

Resolutions == 1..MaxResolution

Frames == 0..MaxFrame

\* lock owners: nobody, the UI thread, or a background task (its index >= 1)
Free == 0

UiThread == -1

VARIABLES
    \* PreviewManager
    working,                    \* the bool inside working: Arc<Mutex<bool>>
    working_lock,               \* owner of the working mutex
    previous_render,            \* Option<(image, duration)> inside the mutex
    previous_render_lock,       \* owner of the previous_render mutex
    previous_scene_resolution,  \* Option<(Scene, resolution)>, UI thread only
    ui,                         \* the UI thread: position, arguments, last return
    displayed,                  \* what with_render's callback was last given
    tasks,                      \* the threads spawned by new_render, in spawn order
    \* Timeline
    start_frame,
    end_frame,
    current_frame,
    keyframes,                  \* BTreeMap<i32, Scene> as a function on its keys
    call,                       \* the last call on the timeline: operation,
                                \* arguments and returned value
    \* Renderer
    output_path,                \* the text of the output path field
    rendering,                  \* the bool inside rendering: Arc<Mutex<bool>>
    progress,                   \* Option<f32> inside the mutex, as <<i, n_frames>>
    cancel_sender,              \* Option<Sender<()>>
    exports,                    \* the bag of threads spawned by render_frame and
                                \* render_animation
    panel,                      \* the UI thread in Renderer::show: idle, or
                                \* between the click on cancel and cancel_render
    \* RenderWorker
    queue,                      \* the Vec inside queue: Arc<Mutex<Vec<RenderRequest>>>
    queue_lock,                 \* owner of the queue mutex
    worker_working,             \* the bool inside working: Arc<Mutex<bool>>
    channel,                    \* the images sent on tx and not yet received
    park_token,                 \* the worker thread's unpark token
    worker,                     \* the worker thread: position, request in hand
    requester,                  \* the thread owning the RenderWorker
    \* Scene::render
    render_settings,            \* the argument: resolution and super_sampling
    buf,                        \* the image buffer: its size, and how often each
                                \* pixel was written
    pixels,                     \* how many items enumerate_pixels_mut has yielded
    pool,                       \* the pixel each thread of the pool is computing
    image,                       \* the returned image, once render has returned
    \* RainAngle (spherical_angle.rs, math.rs)
    conversion,                  \* a rain angle, the radius, and the map angles it was converted to
    \* PerspectiveCamera and EquirectangularCamera (camera.rs)
    camera,                      \* the camera, the arguments of a look_at call and how it ended
    \* ImageEnvironment (environment.rs)
    environment,                 \* an image, and how ImageEnvironment::new on it ended
    \* the diver under BHDiver::update (app.rs)
    diver,                      \* the diver of the current scene: r_init and t
    animating,                  \* BHDiver::animating
    diver_edit,                  \* what the last update did to the diver
    \* Timeline: the preview playback (timeline.rs)
    preview_start,              \* Option<(i32, f64)>: the frame and the time the
                                \* preview started at
    playback                    \* the UI thread in Timeline::show: whether it has
                                \* panicked, and the time of its last update

previewVars == <<working, working_lock, previous_render, previous_render_lock,
                 previous_scene_resolution, ui, displayed, tasks>>

timelineVars == <<start_frame, end_frame, current_frame, keyframes, call>>

rendererVars == <<output_path, rendering, progress, cancel_sender, exports, panel>>

workerVars == <<queue, queue_lock, worker_working, channel, park_token, worker, requester>>

sceneRenderVars == <<render_settings, buf, pixels, pool, image>>

\* what the preview manager's code never touches
outsidePreview == <<start_frame, end_frame, current_frame, keyframes, call,
                    output_path, rendering, progress, cancel_sender, exports, panel,
                    queue, queue_lock, worker_working, channel, park_token, worker,
                    requester, render_settings, buf, pixels, pool, image,
                    conversion,
                    camera,
                    environment,
                    diver,
                    animating,
                    diver_edit,
                    preview_start,
                    playback>>

vars == <<working, working_lock, previous_render, previous_render_lock,
          previous_scene_resolution, ui, displayed, tasks,
          start_frame, end_frame, current_frame, keyframes, call,
          output_path, rendering, progress, cancel_sender, exports, panel,
          queue, queue_lock, worker_working, channel, park_token, worker, requester,
          render_settings, buf, pixels, pool, image,
          conversion,
          camera,
          environment,
          diver,
          animating,
          diver_edit,
          preview_start,
          playback>>

(***************************************************************************)
(* PreviewManager                                                          *)
(***************************************************************************)
\* the image scene.render(Projection::Perspective, resolution) produces,
\* tagged with the task that measured its duration
Render(i, scene, resolution) == [task |-> i, scene |-> scene, resolution |-> resolution]

\* PreviewManager::default()
PreviewManagerDefault ==
    /\ working = FALSE
    /\ working_lock = Free
    /\ previous_render = None
    /\ previous_render_lock = Free
    /\ previous_scene_resolution = None
    /\ ui = [pc |-> "idle", scene |-> SceneDefault, resolution |-> 1, ret |-> "none"]
    /\ displayed = None
    /\ tasks = <<>>

UiReturn(ret) == ui' = [ui EXCEPT !.pc = "idle", !.ret = ret]

\* new_render without the comparison of lines 59-63
new_render_begin_no_compare(scene, resolution) ==
    /\ ui.pc = "idle"
    /\ Len(tasks) < MaxTasks
    /\ ui' = [pc |-> "nr_lock", scene |-> scene, resolution |-> resolution, ret |-> ui.ret]
    /\ UNCHANGED <<working, working_lock, previous_render, previous_render_lock,
                   previous_scene_resolution, displayed, tasks>>
    /\ UNCHANGED outsidePreview

\* new_render, lines 57-63: the comparison with the previous request
new_render_begin(scene, resolution) ==
    /\ ui.pc = "idle"
    /\ Len(tasks) < MaxTasks
    /\ IF previous_scene_resolution = Some(<<scene, resolution>>)
       THEN ui' = [pc |-> "idle", scene |-> scene, resolution |-> resolution, ret |-> "same"]
       ELSE ui' = [pc |-> "nr_lock", scene |-> scene, resolution |-> resolution, ret |-> ui.ret]
    /\ UNCHANGED <<working, working_lock, previous_render, previous_render_lock,
                   previous_scene_resolution, displayed, tasks>>
    /\ UNCHANGED outsidePreview

\* line 65: self.working.lock()
new_render_lock ==
    /\ ui.pc = "nr_lock"
    /\ working_lock = Free
    /\ working_lock' = UiThread
    /\ ui' = [ui EXCEPT !.pc = "nr_locked"]
    /\ UNCHANGED <<working, previous_render, previous_render_lock,
                   previous_scene_resolution, displayed, tasks>>
    /\ UNCHANGED outsidePreview

\* new_render without the test of line 67
new_render_test_no_check ==
    /\ ui.pc = "nr_locked"
    /\ working_lock = UiThread
    /\ working' = TRUE
    /\ ui' = [ui EXCEPT !.pc = "nr_spawn"]
    /\ working_lock' = Free
    /\ UNCHANGED <<previous_render, previous_render_lock,
                   previous_scene_resolution, displayed, tasks>>
    /\ UNCHANGED outsidePreview

\* lines 67-69 and 87-88: test the flag under the lock; set it and drop the
\* guard, or return (the guard is dropped at the end of the function)
new_render_test ==
    /\ ui.pc = "nr_locked"
    /\ working_lock = UiThread
    /\ IF ~working
       THEN /\ working' = TRUE
            /\ ui' = [ui EXCEPT !.pc = "nr_spawn"]
       ELSE /\ working' = working
            /\ UiReturn("busy")
    /\ working_lock' = Free
    /\ UNCHANGED <<previous_render, previous_render_lock,
                   previous_scene_resolution, displayed, tasks>>
    /\ UNCHANGED outsidePreview

\* lines 71-86: record the request and spawn the render thread
new_render_spawn ==
    /\ ui.pc = "nr_spawn"
    /\ previous_scene_resolution' = Some(<<ui.scene, ui.resolution>>)
    /\ tasks' = Append(tasks, [pc |-> "start", scene |-> ui.scene,
                               resolution |-> ui.resolution, render |-> None,
                               saved |-> FALSE])
    /\ UiReturn("spawned")
    /\ UNCHANGED <<working, working_lock, previous_render, previous_render_lock, displayed>>
    /\ UNCHANGED outsidePreview

\* with_render, lines 41-46: lock previous_render
with_render_lock ==
    /\ ui.pc = "idle"
    /\ previous_render_lock = Free
    /\ previous_render_lock' = UiThread
    /\ ui' = [ui EXCEPT !.pc = "wr_locked"]
    /\ UNCHANGED <<working, working_lock, previous_render,
                   previous_scene_resolution, displayed, tasks>>
    /\ UNCHANGED outsidePreview

\* lines 47-51: call func on the render if there is one, then drop the guard
with_render_call ==
    /\ ui.pc = "wr_locked"
    /\ previous_render_lock = UiThread
    /\ IF previous_render # None
       THEN displayed' = previous_render /\ UiReturn("shown")
       ELSE displayed' = displayed /\ UiReturn("absent")
    /\ previous_render_lock' = Free
    /\ UNCHANGED <<working, working_lock, previous_render,
                   previous_scene_resolution, tasks>>
    /\ UNCHANGED outsidePreview

\* is_working, line 54: lock
is_working_lock ==
    /\ ui.pc = "idle"
    /\ working_lock = Free
    /\ working_lock' = UiThread
    /\ ui' = [ui EXCEPT !.pc = "iw_locked"]
    /\ UNCHANGED <<working, previous_render, previous_render_lock,
                   previous_scene_resolution, displayed, tasks>>
    /\ UNCHANGED outsidePreview

\* is_working, line 54: read and drop the guard
is_working_read ==
    /\ ui.pc = "iw_locked"
    /\ working_lock = UiThread
    /\ UiReturn(IF working THEN "true" ELSE "false")
    /\ working_lock' = Free
    /\ UNCHANGED <<working, previous_render, previous_render_lock,
                   previous_scene_resolution, displayed, tasks>>
    /\ UNCHANGED outsidePreview

\* the statements of the spawned closure (lines 77-86) in program order:
\* start the clock, render, lock and assign previous_render, lock and assign
\* working
TaskOrder_lock_before_render ==
    <<"start", "save", "render", "saving", "update", "updating", "done">>

TaskOrder_working_first ==
    <<"start", "render", "update", "updating", "save", "saving", "done">>

TaskOrder == <<"start", "render", "save", "saving", "update", "updating", "done">>

After(pc) == TaskOrder[(CHOOSE k \in 1..(Len(TaskOrder) - 1) : TaskOrder[k] = pc) + 1]

TaskGoto(i, pc) == tasks' = [tasks EXCEPT ![i].pc = pc]

\* spawned closure, line 79: the thread starts running
task_start(i) ==
    /\ tasks[i].pc = "start"
    /\ TaskGoto(i, After("start"))
    /\ UNCHANGED <<working, working_lock, previous_render, previous_render_lock,
                   previous_scene_resolution, ui, displayed>>
    /\ UNCHANGED outsidePreview

\* line 80: scene.render(...) returns
task_render(i) ==
    /\ tasks[i].pc = "render"
    /\ tasks' = [tasks EXCEPT ![i].pc = After("render"),
                              ![i].render = Some(Render(i, tasks[i].scene, tasks[i].resolution))]
    /\ UNCHANGED <<working, working_lock, previous_render, previous_render_lock,
                   previous_scene_resolution, ui, displayed>>
    /\ UNCHANGED outsidePreview

\* line 83: previous_render.lock()
task_lock_previous_render(i) ==
    /\ tasks[i].pc = "save"
    /\ previous_render_lock = Free
    /\ previous_render_lock' = i
    /\ TaskGoto(i, After("save"))
    /\ UNCHANGED <<working, working_lock, previous_render,
                   previous_scene_resolution, ui, displayed>>
    /\ UNCHANGED outsidePreview

\* line 83: the assignment; the temporary guard is dropped with the statement
task_save_render(i) ==
    /\ tasks[i].pc = "saving"
    /\ previous_render_lock = i
    /\ previous_render' = tasks[i].render
    /\ previous_render_lock' = Free
    /\ tasks' = [tasks EXCEPT ![i].pc = After("saving"), ![i].saved = TRUE]
    /\ UNCHANGED <<working, working_lock, previous_scene_resolution, ui, displayed>>
    /\ UNCHANGED outsidePreview

\* line 85: working.lock()
task_lock_working(i) ==
    /\ tasks[i].pc = "update"
    /\ working_lock = Free
    /\ working_lock' = i
    /\ TaskGoto(i, After("update"))
    /\ UNCHANGED <<working, previous_render, previous_render_lock,
                   previous_scene_resolution, ui, displayed>>
    /\ UNCHANGED outsidePreview

\* line 85: the assignment; the closure ends and the thread exits
task_update_working(i) ==
    /\ tasks[i].pc = "updating"
    /\ working_lock = i
    /\ working' = FALSE
    /\ working_lock' = Free
    /\ TaskGoto(i, After("updating"))
    /\ UNCHANGED <<previous_render, previous_render_lock,
                   previous_scene_resolution, ui, displayed>>
    /\ UNCHANGED outsidePreview

PreviewNext ==
    \/ \E s \in InputScenes, r \in Resolutions : new_render_begin(s, r)
    \/ new_render_lock
    \/ new_render_test
    \/ new_render_spawn
    \/ with_render_lock
    \/ with_render_call
    \/ is_working_lock
    \/ is_working_read
    \/ \E i \in DOMAIN tasks : task_start(i)
    \/ \E i \in DOMAIN tasks : task_render(i)
    \/ \E i \in DOMAIN tasks : task_lock_previous_render(i)
    \/ \E i \in DOMAIN tasks : task_save_render(i)
    \/ \E i \in DOMAIN tasks : task_lock_working(i)
    \/ \E i \in DOMAIN tasks : task_update_working(i)

(***************************************************************************)
(* The preview under BHDiver::update (src/src/app.rs lines 125-213)        *)
(* The last return value of the UI thread tells where in update it is.     *)
(***************************************************************************)
\* update runs because the application has started or because the update
\* before it asked for a repaint; it begins with with_render (line 131)
update_repaint ==
    /\ ui.ret \in {"none", "true"}
    /\ with_render_lock

\* update runs because of an input event, nothing having asked for a repaint
update_input_event ==
    /\ ui.ret = "false"
    /\ with_render_lock

\* line 208: new_render with the current scene of the timeline, which input
\* events and the animation may have changed since the last update
update_new_render(scene, resolution) ==
    /\ ui.ret \in {"shown", "absent"}
    /\ new_render_begin(scene, resolution)

\* lines 210-212: is_working(); request_repaint() if it returns true
update_is_working ==
    /\ ui.ret \in {"same", "busy", "spawned"}
    /\ is_working_lock

UiLoopNext ==
    \/ update_repaint
    \/ update_input_event
    \/ \E s \in InputScenes, r \in Resolutions : update_new_render(s, r)
    \/ new_render_lock
    \/ new_render_test
    \/ new_render_spawn
    \/ with_render_call
    \/ update_is_working
    \/ is_working_read
    \/ \E i \in DOMAIN tasks : task_start(i)
    \/ \E i \in DOMAIN tasks : task_render(i)
    \/ \E i \in DOMAIN tasks : task_lock_previous_render(i)
    \/ \E i \in DOMAIN tasks : task_save_render(i)
    \/ \E i \in DOMAIN tasks : task_lock_working(i)
    \/ \E i \in DOMAIN tasks : task_update_working(i)

(***************************************************************************)
(* Timeline                                                                *)
(***************************************************************************)
\* the frame and scene arguments of a call (kept for the calls of get_scene,
\* set_scene_if_different, with_current_scene, delete_keyframe and
\* move_keyframe), and the scene or frames returned; delete_keyframe keeps in
\* "to" the keyframes.len() it read, move_keyframe in "frames" what
\* remove_entry returned
Call(op, frame, to, scene, frames) ==
    [op |-> op, frame |-> frame, to |-> to, scene |-> scene, frames |-> frames]

NoCall == Call("none", 0, 0, SceneDefault, <<>>)

\* Timeline::default()
TimelineDefault ==
    /\ start_frame = 1
    /\ end_frame = 120
    /\ current_frame = 1
    /\ keyframes = (1 :> SceneDefault)
    /\ call = NoCall

\* what the timeline's code never touches
outsideTimeline == <<working, working_lock, previous_render, previous_render_lock,
                     previous_scene_resolution, ui, displayed, tasks,
                     output_path, rendering, progress, cancel_sender, exports, panel,
                     queue, queue_lock, worker_working, channel, park_token, worker,
                     requester, render_settings, buf, pixels, pool, image,
                     conversion,
                     camera,
                     environment,
                     diver,
                     animating,
                     diver_edit,
                     preview_start,
                     playback>>

\* BTreeMap::insert
Insert(kf, frame, scene) ==
    [k \in (DOMAIN kf) \cup {frame} |-> IF k = frame THEN scene ELSE kf[k]]

\* BTreeMap::remove
Remove(kf, frame) == [k \in (DOMAIN kf) \ {frame} |-> kf[k]]

\* first and last element of a non-empty range of keys, in key order
First(range) == CHOOSE k \in range : \A j \in range : k <= j

Last(range) == CHOOSE k \in range : \A j \in range : j <= k

\* Timeline::next_keyframe: keyframes.range(frame + 1..).next()
next_keyframe(kf, frame) ==
    LET range == {k \in DOMAIN kf : k >= frame + 1} IN
    IF range = {} THEN None ELSE Some(<<First(range), kf[First(range)]>>)

\* previous_keyframe taking the first key of the range instead of the last
previous_keyframe_first(kf, frame) ==
    LET range == {k \in DOMAIN kf : k < frame} IN
    IF range = {} THEN None ELSE Some(<<First(range), kf[First(range)]>>)

\* Timeline::previous_keyframe: keyframes.range(..frame).last()
previous_keyframe(kf, frame) ==
    LET range == {k \in DOMAIN kf : k < frame} IN
    IF range = {} THEN None ELSE Some(<<Last(range), kf[Last(range)]>>)

\* Interpolate for f64: (1 - factor) * self + factor * other, the factor being
\* the quotient num / den of two frame distances; fixed point, the cast truncates
Lerp(a, b, num, den) == ((den - num) * a + num * b) \div den

\* Interpolate for Scene: the camera interpolated, gr of the left scene
interpolate(self, other, num, den) ==
    [fov |-> Lerp(self.fov, other.fov, num, den), gr |-> self.gr]

\* the value standing for the panic of unreachable!()
Unreachable == [fov |-> -1, gr |-> FALSE]

\* get_scene without the lookup of lines 75-77
get_scene_no_lookup(kf, frame) ==
    LET left == previous_keyframe(kf, frame)
        right == next_keyframe(kf, frame)
    IN  CASE left # None /\ right # None ->
                 interpolate(left[1][2], right[1][2],
                             frame - left[1][1], right[1][1] - left[1][1])
          [] left = None /\ right # None -> right[1][2]
          [] left # None /\ right = None -> left[1][2]
          [] OTHER -> Unreachable

\* Timeline::get_scene
get_scene(kf, frame) ==
    IF frame \in DOMAIN kf
    THEN kf[frame]
    ELSE LET left == previous_keyframe(kf, frame)
             right == next_keyframe(kf, frame)
         IN  CASE left # None /\ right # None ->
                      interpolate(left[1][2], right[1][2],
                                  frame - left[1][1], right[1][1] - left[1][1])
               [] left = None /\ right # None -> right[1][2]
               [] left # None /\ right = None -> left[1][2]
               [] OTHER -> Unreachable

\* Timeline::new(start_frame, end_frame, fps)
TimelineNew(start, end) ==
    /\ start_frame = start
    /\ end_frame = end
    /\ current_frame = start
    /\ keyframes = (start :> SceneDefault)
    /\ call = NoCall

\* the current_frame field is public: the frame DragValue and the arrow keys
set_current_frame(frame) ==
    /\ current_frame' = frame
    /\ call' = Call("set_current_frame", 0, 0, SceneDefault, <<>>)
    /\ UNCHANGED <<start_frame, end_frame, keyframes>>
    /\ UNCHANGED outsideTimeline

\* a call of get_scene(frame), a &self method
get_scene_call(frame) ==
    /\ call' = Call("get_scene", frame, 0, get_scene(keyframes, frame), <<>>)
    /\ UNCHANGED <<start_frame, end_frame, current_frame, keyframes>>
    /\ UNCHANGED outsideTimeline

\* Timeline::set_scene: the map after the insert
SetScene(kf, frame, scene) == Insert(kf, frame, scene)

\* set_scene_if_different without the comparison
SetSceneIfDifferent_always(kf, frame, scene) == SetScene(kf, frame, scene)

\* Timeline::set_scene_if_different: the map after the call
SetSceneIfDifferent(kf, frame, scene) ==
    IF scene # get_scene(kf, frame) THEN SetScene(kf, frame, scene) ELSE kf

set_scene(frame, scene) ==
    /\ keyframes' = SetScene(keyframes, frame, scene)
    /\ call' = Call("set_scene", 0, 0, SceneDefault, <<>>)
    /\ UNCHANGED <<start_frame, end_frame, current_frame>>
    /\ UNCHANGED outsideTimeline

set_scene_if_different(frame, scene) ==
    /\ keyframes' = SetSceneIfDifferent(keyframes, frame, scene)
    /\ call' = Call("set_scene_if_different", frame, 0, scene, <<>>)
    /\ UNCHANGED <<start_frame, end_frame, current_frame>>
    /\ UNCHANGED outsideTimeline

\* what an edit_scene closure may do to the scene it is handed: nothing, or
\* zoom the camera
Edits == {"none", "zoom"}

Edit(edit, scene) ==
    CASE edit = "none" -> scene
      [] edit = "zoom" -> [scene EXCEPT !.fov = IF scene.fov = OtherFov THEN DefaultFov ELSE OtherFov]

\* Timeline::with_current_scene
with_current_scene(edit) ==
    LET scene == Edit(edit, get_scene(keyframes, current_frame)) IN
    /\ keyframes' = SetSceneIfDifferent(keyframes, current_frame, scene)
    /\ call' = Call("with_current_scene", current_frame, 0, scene, <<>>)
    /\ UNCHANGED <<start_frame, end_frame, current_frame>>
    /\ UNCHANGED outsideTimeline

\* the range start..end without its last frame
RECURSIVE AnimationFrames_exclusive(_, _, _)
AnimationFrames_exclusive(kf, i, end) ==
    IF i >= end
    THEN <<>>
    ELSE <<[frame |-> i, scene |-> get_scene(kf, i)]>> \o AnimationFrames_exclusive(kf, i + 1, end)

\* to_animation, lines 116-119: (start_frame..=end_frame).map(Frame(i, get_scene(i))).collect()
RECURSIVE AnimationFrames(_, _, _)
AnimationFrames(kf, i, end) ==
    IF i > end
    THEN <<>>
    ELSE <<[frame |-> i, scene |-> get_scene(kf, i)]>> \o AnimationFrames(kf, i + 1, end)

\* Timeline::to_animation, a &self method
to_animation ==
    /\ call' = Call("to_animation", 0, 0, SceneDefault,
                    AnimationFrames(keyframes, start_frame, end_frame))
    /\ UNCHANGED <<start_frame, end_frame, current_frame, keyframes>>
    /\ UNCHANGED outsideTimeline

\* clear_keyframes re-seeding with Scene::default() instead of the current scene
ClearKeyframes_default ==
    /\ keyframes' = (start_frame :> SceneDefault)
    /\ current_frame' = start_frame

\* Timeline::clear_keyframes: the state it leaves
ClearKeyframes ==
    /\ keyframes' = (start_frame :> get_scene(keyframes, current_frame))
    /\ current_frame' = start_frame

clear_keyframes ==
    /\ ClearKeyframes
    /\ call' = Call("clear_keyframes", 0, 0, SceneDefault, <<>>)
    /\ UNCHANGED <<start_frame, end_frame>>
    /\ UNCHANGED outsideTimeline

\* delete_keyframe without the test of line 125
DeleteKeyframe_no_test(frame) ==
    /\ keyframes' = Remove(keyframes, frame)
    /\ current_frame' = current_frame

\* Timeline::delete_keyframe: the state it leaves
DeleteKeyframe(frame) ==
    IF Cardinality(DOMAIN keyframes) = 1
    THEN ClearKeyframes
    ELSE /\ keyframes' = Remove(keyframes, frame)
         /\ current_frame' = current_frame

delete_keyframe(frame) ==
    /\ DeleteKeyframe(frame)
    /\ call' = Call("delete_keyframe", frame, Cardinality(DOMAIN keyframes), SceneDefault, <<>>)
    /\ UNCHANGED <<start_frame, end_frame>>
    /\ UNCHANGED outsideTimeline

\* move_keyframe removing the keyframe at to_frame when there is none at
\* from_frame
MoveKeyframe_remove_to(kf, from_frame, to_frame) ==
    IF from_frame \in DOMAIN kf
    THEN Insert(Remove(kf, from_frame), to_frame, kf[from_frame])
    ELSE Remove(kf, to_frame)

\* Timeline::move_keyframe: the map after the call
MoveKeyframe(kf, from_frame, to_frame) ==
    IF from_frame \in DOMAIN kf
    THEN Insert(Remove(kf, from_frame), to_frame, kf[from_frame])
    ELSE kf

\* BTreeMap::remove_entry(&from_frame): the scene of the removed entry, if any
RemoveEntry(kf, frame) == IF frame \in DOMAIN kf THEN Some(kf[frame]) ELSE None

move_keyframe(from_frame, to_frame) ==
    /\ keyframes' = MoveKeyframe(keyframes, from_frame, to_frame)
    /\ call' = Call("move_keyframe", from_frame, to_frame, SceneDefault,
                    RemoveEntry(keyframes, from_frame))
    /\ UNCHANGED <<start_frame, end_frame, current_frame>>
    /\ UNCHANGED outsideTimeline

\* Timeline::add_current_keyframe
add_current_keyframe ==
    /\ keyframes' = Insert(keyframes, current_frame, get_scene(keyframes, current_frame))
    /\ call' = Call("add_current_keyframe", 0, 0, SceneDefault, <<>>)
    /\ UNCHANGED <<start_frame, end_frame, current_frame>>
    /\ UNCHANGED outsideTimeline

TimelineNext ==
    \/ \E f \in Frames : set_current_frame(f)
    \/ \E f \in Frames : get_scene_call(f)
    \/ \E f \in Frames, s \in InputScenes : set_scene(f, s)
    \/ \E f \in Frames, s \in InputScenes : set_scene_if_different(f, s)
    \/ \E e \in Edits : with_current_scene(e)
    \/ to_animation
    \/ clear_keyframes
    \/ \E f \in Frames : delete_keyframe(f)
    \/ \E f \in Frames, t \in Frames : move_keyframe(f, t)
    \/ add_current_keyframe

(***************************************************************************)
(* Renderer (src/src/render.rs)                                            *)
(***************************************************************************)
\* what the export renderer's code never touches
outsideRenderer == <<working, working_lock, previous_render, previous_render_lock,
                     previous_scene_resolution, ui, displayed, tasks,
                     start_frame, end_frame, current_frame, keyframes, call,
                     queue, queue_lock, worker_working, channel, park_token, worker,
                     requester, render_settings, buf, pixels, pool, image,
                     conversion,
                     camera,
                     environment,
                     diver,
                     animating,
                     diver_edit,
                     preview_start,
                     playback>>

\* the texts typed into the output path field
OutputPaths == {"out.png"}

\* Renderer::get_output_path
get_output_path(path) == IF path = "out.png" THEN Some(path) ELSE None

\* the animations handed to render_animation: timeline.to_animation() of a
\* timeline with one keyframe whose first frame is not frame 1
AnimationStart == 2

Animations ==
    {AnimationFrames((AnimationStart :> SceneDefault), AnimationStart,
                     AnimationStart + MaxAnimationFrames - 1)}

\* the decimal digits of n, most significant first
RECURSIVE Digits(_)
Digits(n) == IF n < 10 THEN <<n>> ELSE Digits(n \div 10) \o <<n % 10>>

\* the width of format!("{:0>5}", _)
PadWidth == 5

\* format!("{:0>width}", _) of a digit string: zeros are added on the left
\* up to the width, a longer string is left as it is
RECURSIVE PadLeft(_, _)
PadLeft(digits, width) ==
    IF Len(digits) >= width THEN digits ELSE PadLeft(<<0>> \o digits, width)

\* the frame name numbered by the frame's timeline index
FrameName_frame_index(i, frame) == PadLeft(Digits(frame + 1), PadWidth)

\* lines 198-203: the part of the file name between stem and extension, for
\* the item (i, (frame, image)) of the enumeration
FrameName(i, frame) == PadLeft(Digits(i + 1), PadWidth)

\* the thread spawned by render_frame: it owns no channel
FrameExport ==
    [kind |-> "frame", pc |-> "render", animation |-> <<>>, i |-> 0, rendered |-> 0,
     written |-> <<>>, queue |-> 0, receiver |-> FALSE, connected |-> FALSE, failed |-> 0]

\* the thread spawned by render_animation, at the head of its loop (lines
\* 187-192): i is the index of the enumeration, rendered the number of frames
\* the iterator has rendered, written the names of the files saved, queue the
\* messages waiting in its channel, receiver whether its Receiver is alive,
\* connected whether cancel_sender is the Sender of its channel, failed the
\* ordinal of the frame whose save returned an error
AnimationExport(animation) ==
    [kind |-> "animation", pc |-> "next", animation |-> animation, i |-> 0, rendered |-> 0,
     written |-> <<>>, queue |-> 0, receiver |-> TRUE, connected |-> TRUE, failed |-> 0]

\* a thread that has ended while cancel_sender is still the Sender of its
\* channel: its closure and the Receiver in it are dropped
DoneExport ==
    [kind |-> "done", pc |-> "done", animation |-> <<>>, i |-> 0, rendered |-> 0,
     written |-> <<>>, queue |-> 0, receiver |-> FALSE, connected |-> TRUE, failed |-> 0]

\* the Sender<()> held in cancel_sender
Sender == Some("sender")

\* Renderer::default()
RendererDefault ==
    /\ output_path = ""
    /\ rendering = FALSE
    /\ progress = None
    /\ cancel_sender = None
    /\ exports = EmptyBag
    /\ panel = "idle"

\* Renderer::can_render
can_render == get_output_path(output_path) # None /\ ~rendering

\* the export threads, and the one whose channel cancel_sender sends on
Exports == BagToSet(exports)

Connected == {e \in Exports : e.connected}

\* the thread e goes on as f
ExportGoto(e, f) == exports' = (exports (-) SetToBag({e})) (+) SetToBag({f})

\* the Sender in cancel_sender is dropped: nothing is left of its channel
\* once the thread owning the Receiver has ended
DropSender ==
    IF Connected = {}
    THEN exports
    ELSE LET e == CHOOSE e \in Connected : TRUE IN
         IF e.kind = "done"
         THEN exports (-) SetToBag({e})
         ELSE (exports (-) SetToBag({e})) (+) SetToBag({[e EXCEPT !.connected = FALSE]})

\* show, line 235: the text field of the output path is edited
set_output_path(path) ==
    /\ panel = "idle"
    /\ output_path' = path
    /\ UNCHANGED <<rendering, progress, cancel_sender, exports, panel>>
    /\ UNCHANGED outsideRenderer

\* show, lines 239-244, and render_frame, lines 155-172
render_frame ==
    /\ panel = "idle"
    /\ can_render
    /\ BagCardinality(exports) < MaxExports
    /\ rendering' = TRUE
    /\ exports' = exports (+) SetToBag({FrameExport})
    /\ UNCHANGED <<output_path, progress, cancel_sender, panel>>
    /\ UNCHANGED outsideRenderer

\* show, lines 245-250, and render_animation, lines 174-186: the new Sender
\* replaces the old one, which is dropped
render_animation(animation) ==
    /\ panel = "idle"
    /\ can_render
    /\ BagCardinality(DropSender) < MaxExports
    /\ rendering' = TRUE
    /\ cancel_sender' = Sender
    /\ exports' = DropSender (+) SetToBag({AnimationExport(animation)})
    /\ UNCHANGED <<output_path, progress, panel>>
    /\ UNCHANGED outsideRenderer

\* show, lines 251-254: the cancel button is enabled by is_rendering() and
\* clicked
cancel_clicked ==
    /\ panel = "idle"
    /\ rendering
    /\ \A e \in Connected : e.queue < MaxCancels
    /\ panel' = "cancel"
    /\ UNCHANGED <<output_path, rendering, progress, cancel_sender, exports>>
    /\ UNCHANGED outsideRenderer

\* cancel_render clearing rendering whether or not the send failed
cancel_render_always_clear ==
    /\ panel = "cancel"
    /\ panel' = "idle"
    /\ IF cancel_sender = None
       THEN UNCHANGED <<rendering, exports>>
       ELSE LET e == CHOOSE e \in Connected : TRUE IN
            IF e.receiver
            THEN /\ ExportGoto(e, [e EXCEPT !.queue = @ + 1])
                 /\ rendering' = FALSE
            ELSE /\ rendering' = FALSE
                 /\ UNCHANGED exports
    /\ UNCHANGED <<output_path, progress, cancel_sender>>
    /\ UNCHANGED outsideRenderer

\* Renderer::cancel_render, lines 125-134: send fails when the Receiver of
\* the channel has been dropped
cancel_render ==
    /\ panel = "cancel"
    /\ panel' = "idle"
    /\ IF cancel_sender = None
       THEN UNCHANGED <<rendering, exports>>
       ELSE LET e == CHOOSE e \in Connected : TRUE IN
            IF e.receiver
            THEN /\ ExportGoto(e, [e EXCEPT !.queue = @ + 1])
                 /\ UNCHANGED rendering
            ELSE /\ rendering' = FALSE
                 /\ UNCHANGED exports
    /\ UNCHANGED <<output_path, progress, cancel_sender>>
    /\ UNCHANGED outsideRenderer

\* render_frame's thread, lines 164-167: scene.render(render_settings)
\* returns and the image is saved, the result of the save ignored
frame_render(e) ==
    /\ e.kind = "frame"
    /\ e.pc = "render"
    /\ \E ok \in BOOLEAN :
           ExportGoto(e, [e EXCEPT !.pc = "clear_rendering",
                                   !.rendered = 1,
                                   !.written = IF ok THEN <<<<>>>> ELSE <<>>])
    /\ UNCHANGED <<output_path, rendering, progress, cancel_sender, panel>>
    /\ UNCHANGED outsideRenderer

\* line 170: *rendering.lock() = false; the thread ends
frame_clear_rendering(e) ==
    /\ e.kind = "frame"
    /\ e.pc = "clear_rendering"
    /\ rendering' = FALSE
    /\ exports' = exports (-) SetToBag({e})
    /\ UNCHANGED <<output_path, progress, cancel_sender, panel>>
    /\ UNCHANGED outsideRenderer

\* render_animation's thread, line 192: the enumerated iterator is advanced;
\* Animation::render_frames maps the frames lazily, so the next frame is
\* rendered here (animation.rs, lines 71-75); the loop ends after the last frame
animation_next(e) ==
    /\ e.kind = "animation"
    /\ e.pc = "next"
    /\ IF e.i < Len(e.animation)
       THEN ExportGoto(e, [e EXCEPT !.pc = "check", !.rendered = @ + 1])
       ELSE ExportGoto(e, [e EXCEPT !.pc = "clear_progress"])
    /\ UNCHANGED <<output_path, rendering, progress, cancel_sender, panel>>
    /\ UNCHANGED outsideRenderer

\* lines 194-196: receiver.try_recv().is_ok() takes a waiting message and
\* breaks
animation_check(e) ==
    /\ e.kind = "animation"
    /\ e.pc = "check"
    /\ IF e.queue > 0
       THEN ExportGoto(e, [e EXCEPT !.pc = "clear_progress", !.queue = @ - 1])
       ELSE ExportGoto(e, [e EXCEPT !.pc = "save"])
    /\ UNCHANGED <<output_path, rendering, progress, cancel_sender, panel>>
    /\ UNCHANGED outsideRenderer

\* the save of a frame going on to the next statement after an error
animation_save_ignore_error(e) ==
    /\ e.kind = "animation"
    /\ e.pc = "save"
    /\ \E ok \in BOOLEAN :
           IF ok
           THEN ExportGoto(e, [e EXCEPT
                                   !.pc = "progress",
                                   !.written = Append(@, FrameName(e.i, e.animation[e.i + 1].frame))])
           ELSE ExportGoto(e, [e EXCEPT !.pc = "progress", !.failed = e.i + 1])
    /\ UNCHANGED <<output_path, rendering, progress, cancel_sender, panel>>
    /\ UNCHANGED outsideRenderer

\* lines 198-210: the frame is saved under its name; an error breaks
animation_save(e) ==
    /\ e.kind = "animation"
    /\ e.pc = "save"
    /\ \E ok \in BOOLEAN :
           IF ok
           THEN ExportGoto(e, [e EXCEPT
                                   !.pc = "progress",
                                   !.written = Append(@, FrameName(e.i, e.animation[e.i + 1].frame))])
           ELSE ExportGoto(e, [e EXCEPT !.pc = "clear_progress", !.failed = e.i + 1])
    /\ UNCHANGED <<output_path, rendering, progress, cancel_sender, panel>>
    /\ UNCHANGED outsideRenderer

\* line 211: *progress.lock() = Some(i / n_frames), and the loop goes round
animation_progress(e) ==
    /\ e.kind = "animation"
    /\ e.pc = "progress"
    /\ progress' = Some(<<e.i, Len(e.animation)>>)
    /\ ExportGoto(e, [e EXCEPT !.pc = "next", !.i = @ + 1])
    /\ UNCHANGED <<output_path, rendering, cancel_sender, panel>>
    /\ UNCHANGED outsideRenderer

\* line 215: *progress.lock() = None; the loop's variables are gone
animation_clear_progress(e) ==
    /\ e.kind = "animation"
    /\ e.pc = "clear_progress"
    /\ progress' = None
    /\ ExportGoto(e, [AnimationExport(<<>>) EXCEPT !.pc = "clear_rendering",
                                                   !.queue = e.queue,
                                                   !.connected = e.connected])
    /\ UNCHANGED <<output_path, rendering, cancel_sender, panel>>
    /\ UNCHANGED outsideRenderer

\* line 217: *rendering.lock() = false
animation_clear_rendering(e) ==
    /\ e.kind = "animation"
    /\ e.pc = "clear_rendering"
    /\ rendering' = FALSE
    /\ ExportGoto(e, [e EXCEPT !.pc = "exit"])
    /\ UNCHANGED <<output_path, progress, cancel_sender, panel>>
    /\ UNCHANGED outsideRenderer

\* line 218: the closure ends and its Receiver is dropped
animation_exit(e) ==
    /\ e.kind = "animation"
    /\ e.pc = "exit"
    /\ IF e.connected
       THEN ExportGoto(e, DoneExport)
       ELSE exports' = exports (-) SetToBag({e})
    /\ UNCHANGED <<output_path, rendering, progress, cancel_sender, panel>>
    /\ UNCHANGED outsideRenderer

RendererNext ==
    \/ \E path \in OutputPaths : set_output_path(path)
    \/ render_frame
    \/ \E animation \in Animations : render_animation(animation)
    \/ cancel_clicked
    \/ cancel_render
    \/ \E e \in Exports : frame_render(e)
    \/ \E e \in Exports : frame_clear_rendering(e)
    \/ \E e \in Exports : animation_next(e)
    \/ \E e \in Exports : animation_check(e)
    \/ \E e \in Exports : animation_save(e)
    \/ \E e \in Exports : animation_progress(e)
    \/ \E e \in Exports : animation_clear_progress(e)
    \/ \E e \in Exports : animation_clear_rendering(e)
    \/ \E e \in Exports : animation_exit(e)

(***************************************************************************)
(* RenderWorker (src/src/render_worker.rs)                                 *)
(***************************************************************************)
\* what the render worker's code never touches
outsideWorker == <<working, working_lock, previous_render, previous_render_lock,
                   previous_scene_resolution, ui, displayed, tasks,
                   start_frame, end_frame, current_frame, keyframes, call,
                   output_path, rendering, progress, cancel_sender, exports, panel,
                   render_settings, buf, pixels, pool, image,
                   conversion,
                   camera,
                   environment,
                   diver,
                   animating,
                   diver_edit,
                   preview_start,
                   playback>>

\* the owner of the queue mutex inside render()
RequesterThread == -1

\* the requests handed to render(): the fields of a RenderRequest that vary
RenderRequests == {[fov |-> f, gr |-> g] : f \in {DefaultFov, OtherFov}, g \in BOOLEAN}

\* render_request(&request): the image of a request
RenderRequestImage(request) == [image |-> request]

\* RenderWorker::new(): the worker thread is spawned and about to park; the
\* owner is about to make its first call of render()
RenderWorkerNew ==
    /\ queue = <<>>
    /\ queue_lock = Free
    /\ worker_working = FALSE
    /\ channel = <<>>
    /\ park_token = FALSE
    /\ worker = [pc |-> "park", request |-> None]
    /\ requester = [pc |-> "render", round |-> 1, request |-> None,
                    accepted |-> TRUE, received |-> None]

\* render, line 82: self.queue.lock()
render_lock(request) ==
    /\ requester.pc = "render"
    /\ queue_lock = Free
    /\ queue_lock' = RequesterThread
    /\ requester' = [requester EXCEPT !.pc = "locked", !.request = Some(request)]
    /\ UNCHANGED <<queue, worker_working, channel, park_token, worker>>
    /\ UNCHANGED outsideWorker

\* render, lines 85-94: the request is ignored when the queue holds an item
\* or working is set; else it is pushed and the worker unparked; the guard of
\* the queue is dropped at the return; the caller goes on to receiver.recv()
render_push ==
    /\ requester.pc = "locked"
    /\ queue_lock = RequesterThread
    /\ IF Len(queue) > 0 \/ worker_working
       THEN /\ requester' = [requester EXCEPT !.pc = "recv", !.accepted = FALSE]
            /\ UNCHANGED <<queue, park_token>>
       ELSE /\ queue' = Append(queue, requester.request[1])
            /\ park_token' = TRUE
            /\ requester' = [requester EXCEPT !.pc = "recv", !.accepted = TRUE]
    /\ queue_lock' = Free
    /\ UNCHANGED <<worker_working, channel, worker>>
    /\ UNCHANGED outsideWorker

\* the owner's receiver.recv(): blocks until an image is in the channel; the
\* next round follows
recv ==
    /\ requester.pc = "recv"
    /\ channel # <<>>
    /\ channel' = Tail(channel)
    /\ requester' = [requester EXCEPT
                         !.pc = IF requester.round < MaxRounds THEN "render" ELSE "finished",
                         !.round = IF requester.round < MaxRounds THEN @ + 1 ELSE @,
                         !.received = Some(Head(channel))]
    /\ UNCHANGED <<queue, queue_lock, worker_working, park_token, worker>>
    /\ UNCHANGED outsideWorker

\* worker loop, line 52: thread::park() returns when the token is there and
\* takes it
worker_park ==
    /\ worker.pc = "park"
    /\ park_token
    /\ park_token' = FALSE
    /\ worker' = [worker EXCEPT !.pc = "set_working"]
    /\ UNCHANGED <<queue, queue_lock, worker_working, channel, requester>>
    /\ UNCHANGED outsideWorker

\* line 54: *working.lock().unwrap() = true
worker_set_working ==
    /\ worker.pc = "set_working"
    /\ worker_working' = TRUE
    /\ worker' = [worker EXCEPT !.pc = "take"]
    /\ UNCHANGED <<queue, queue_lock, channel, park_token, requester>>
    /\ UNCHANGED outsideWorker

\* lines 57-63: lock the queue, remove the first request (a panic when there
\* is none), drop the guard
worker_take ==
    /\ worker.pc = "take"
    /\ queue_lock = Free
    /\ IF queue = <<>>
       THEN /\ worker' = [worker EXCEPT !.pc = "panicked"]
            /\ UNCHANGED queue
       ELSE /\ worker' = [pc |-> "render", request |-> Some(Head(queue))]
            /\ queue' = Tail(queue)
    /\ UNCHANGED <<queue_lock, worker_working, channel, park_token, requester>>
    /\ UNCHANGED outsideWorker

\* lines 64-65: render the request and send the image to the requester
worker_send ==
    /\ worker.pc = "render"
    /\ channel' = Append(channel, RenderRequestImage(worker.request[1]))
    /\ worker' = [pc |-> "clear_working", request |-> None]
    /\ UNCHANGED <<queue, queue_lock, worker_working, park_token, requester>>
    /\ UNCHANGED outsideWorker

\* line 67: *working.lock().unwrap() = false, and the loop goes round
worker_clear_working ==
    /\ worker.pc = "clear_working"
    /\ worker_working' = FALSE
    /\ worker' = [worker EXCEPT !.pc = "park"]
    /\ UNCHANGED <<queue, queue_lock, channel, park_token, requester>>
    /\ UNCHANGED outsideWorker

WorkerNext ==
    \/ \E request \in RenderRequests : render_lock(request)
    \/ render_push
    \/ recv
    \/ worker_park
    \/ worker_set_working
    \/ worker_take
    \/ worker_send
    \/ worker_clear_working

\* the owner calls render() again without waiting in receiver.recv() for
\* the image of its last call (render takes &self and may be called at any
\* time, lines 80-94)
render_again ==
    /\ requester.pc = "recv"
    /\ requester.round < MaxRounds
    /\ requester' = [requester EXCEPT !.pc = "render", !.round = @ + 1]
    /\ UNCHANGED <<queue, queue_lock, worker_working, channel, park_token, worker>>
    /\ UNCHANGED outsideWorker

\* worker loop, line 52: thread::park() returns although nobody has made the
\* token available, as std::thread::park is documented to do ("it may also
\* return spuriously, without consuming the token")
worker_park_spurious ==
    /\ worker.pc = "park"
    /\ worker' = [worker EXCEPT !.pc = "set_working"]
    /\ UNCHANGED <<queue, queue_lock, worker_working, channel, park_token, requester>>
    /\ UNCHANGED outsideWorker

WorkerWakeupsNext ==
    \/ \E request \in RenderRequests : render_lock(request)
    \/ render_push
    \/ recv
    \/ render_again
    \/ worker_park
    \/ worker_park_spurious
    \/ worker_set_working
    \/ worker_take
    \/ worker_send
    \/ worker_clear_working

(***************************************************************************)
(* Scene::render (src/src/scene.rs)                                        *)
(***************************************************************************)
\* what Scene::render never touches
outsideSceneRender == <<working, working_lock, previous_render, previous_render_lock,
                        previous_scene_resolution, ui, displayed, tasks,
                        start_frame, end_frame, current_frame, keyframes, call,
                        output_path, rendering, progress, cancel_sender, exports, panel,
                        queue, queue_lock, worker_working, channel, park_token, worker,
                        requester,
                        conversion,
                        camera,
                        environment,
                        diver,
                        animating,
                        diver_edit,
                        preview_start,
                        playback>>

\* the render settings handed to Scene::render: a resolution and an optional
\* super sampling factor
RenderSettings ==
    {[x |-> w, y |-> h, super_sampling |-> ss] :
         w \in Resolutions, h \in Resolutions,
         ss \in {None} \cup {Some(k) : k \in 1..MaxSuperSampling}}

\* Option::unwrap_or
UnwrapOr(option, default) == IF option = None THEN default ELSE option[1]

\* lines 29-34: the resolution of the buffer
BufferResolution(settings) ==
    [x |-> settings.x * UnwrapOr(settings.super_sampling, 1),
     y |-> settings.y * UnwrapOr(settings.super_sampling, 1)]

\* ImageBuffer::new(width, height): an image none of whose pixels was written
ImageBufferNew(width, height) ==
    [width |-> width, height |-> height,
     written |-> [p \in (0..(width - 1)) \X (0..(height - 1)) |-> 0]]

\* enumerate_pixels_mut: the n-th item it yields, rows first
EnumeratePixel(image_buffer, n) == <<n % image_buffer.width, n \div image_buffer.width>>

\* the downscaling left out: the buffer is returned as it is
Downscale_none(image_buffer, settings) ==
    [width |-> image_buffer.width, height |-> image_buffer.height]

\* lines 82-91: image::imageops::resize(&buf, resolution.x, resolution.y, _)
\* when super sampling is set, the buffer itself when it is not
Downscale(image_buffer, settings) ==
    IF settings.super_sampling # None
    THEN [width |-> settings.x, height |-> settings.y]
    ELSE [width |-> image_buffer.width, height |-> image_buffer.height]

PoolThreads == 1..MaxPoolThreads

\* Scene::render is called: lines 28-37, the buffer is created
SceneRenderCalled ==
    /\ render_settings \in RenderSettings
    /\ buf = ImageBufferNew(BufferResolution(render_settings).x,
                            BufferResolution(render_settings).y)
    /\ pixels = 0
    /\ pool = [k \in PoolThreads |-> None]
    /\ image = None

\* lines 41-42 and 60-61: a thread of the pool takes the next item of the
\* bridged iterator
pool_next(k) ==
    /\ image = None
    /\ pool[k] = None
    /\ pixels < buf.width * buf.height
    /\ pool' = [pool EXCEPT ![k] = Some(EnumeratePixel(buf, pixels))]
    /\ pixels' = pixels + 1
    /\ UNCHANGED <<render_settings, buf, image>>
    /\ UNCHANGED outsideSceneRender

\* lines 43-57 and 62-78: the closure computes the pixel and assigns it
pool_pixel(k) ==
    /\ image = None
    /\ pool[k] # None
    /\ buf' = [buf EXCEPT !.written[pool[k][1]] = @ + 1]
    /\ pool' = [pool EXCEPT ![k] = None]
    /\ UNCHANGED <<render_settings, pixels, image>>
    /\ UNCHANGED outsideSceneRender

\* lines 81-91: for_each has returned; the image is downscaled if needed and
\* returned
scene_render_return ==
    /\ image = None
    /\ pixels = buf.width * buf.height
    /\ \A k \in PoolThreads : pool[k] = None
    /\ image' = Some(Downscale(buf, render_settings))
    /\ UNCHANGED <<render_settings, buf, pixels, pool>>
    /\ UNCHANGED outsideSceneRender

SceneRenderNext ==
    \/ \E k \in PoolThreads : pool_next(k)
    \/ \E k \in PoolThreads : pool_pixel(k)
    \/ scene_render_return

(***************************************************************************)
(* Rain angles and map angles (src/src/spherical_angle.rs, src/src/math.rs)*)
(* Angles are in whole degrees.                                            *)
(***************************************************************************)
\* what the conversions never touch
outsideConversion == <<working, working_lock, previous_render,
                       previous_render_lock,
                       previous_scene_resolution, ui, displayed,
                       tasks, start_frame, end_frame, current_frame,
                       keyframes, call, output_path, rendering,
                       progress, cancel_sender, exports, panel,
                       queue, queue_lock, worker_working, channel,
                       park_token, worker, requester,
                       render_settings, buf, pixels, pool, image,
                       camera,
                       environment,
                       diver,
                       animating,
                       diver_edit,
                       preview_start,
                       playback>>

\* std::f64::consts::PI
Pi == 180

\* polar angles of a ray: [0, PI] in MaxAngleSteps steps
Thetas == {(k * Pi) \div MaxAngleSteps : k \in 0..MaxAngleSteps}

\* azimuths of a ray: [0, 2 PI) in steps of the same size
Phis == {(k * Pi) \div MaxAngleSteps : k \in 0..(2 * MaxAngleSteps - 1)}

\* the radii the diver is at
Radii == {1, 3, 6}

\* the values the integral of the geodesic takes (the angle the ray has
\* swept): it grows without bound as the ray nears the photon sphere
Integrals == {(k * Pi) \div MaxAngleSteps : k \in 0..(3 * MaxAngleSteps)}

\* critical_rain_angle: acos((27 sqrt(2r) + r sqrt(r (6 + r)) (r - 3)) /
\* (54 + r^3)) is 53.27, 35.26 and 24.20 degrees at r = 1, 3 and 6; the
\* smallest whole degree not below it, which compares with a whole degree as
\* the value itself does
critical_rain_angle(r) ==
    CASE r = 1 -> 54
      [] r = 3 -> 36
      [] r = 6 -> 25

\* hits_black_hole
hits_black_hole(theta_rain, r) == theta_rain < critical_rain_angle(r)

\* f64::cos followed by f64::acos: the angle folded into [0, PI]
AcosCos(angle) ==
    IF angle % (2 * Pi) <= Pi
    THEN angle % (2 * Pi)
    ELSE (2 * Pi) - (angle % (2 * Pi))

\* f64::sin followed by f64::signum: -1 on the open lower half turn, 1
\* elsewhere (the signum of 0.0 is 1.0)
SinSignum(angle) == IF angle % (2 * Pi) > Pi THEN -1 ELSE 1

\* MapAngle::new
MapAngleNew(theta, phi) == [theta |-> theta, phi |-> phi]

\* rain_angle_to_map_angle; integral is what map_angle_from_impact_parameter
\* returns
rain_angle_to_map_angle(theta_rain, phi_rain, r, integral) ==
    IF hits_black_hole(theta_rain, r)
    THEN None
    ELSE LET theta_map == Pi - integral
             theta_map_normalized == AcosCos(theta_map)
             phi_map == IF SinSignum(theta_map) = -1
                        THEN phi_rain + Pi
                        ELSE phi_rain
         IN  Some(<<theta_map_normalized, phi_map>>)

\* RainAngle::try_to_map_angle
try_to_map_angle(rain, r, integral) ==
    LET angle == rain_angle_to_map_angle(rain.theta, rain.phi, r, integral)
    IN  IF angle = None
        THEN None
        ELSE Some(MapAngleNew(angle[1][1], angle[1][2]))

\* the shadow test left out
try_to_map_angle_no_gr_no_shadow(rain, r) == Some(MapAngleNew(rain.theta, rain.phi))

\* RainAngle::try_to_map_angle_no_gr
try_to_map_angle_no_gr(rain, r) ==
    IF hits_black_hole(rain.theta, r)
    THEN None
    ELSE Some(MapAngleNew(rain.theta, rain.phi))

\* a ray of a pixel and the radius of the diver, not yet converted
ConversionInputs ==
    [rain : [theta : Thetas, phi : Phis], r : Radii, integral : Integrals,
     called : {{}}, gr : {None}, no_gr : {None}]

\* the closure of the gr branch converts the ray (scene.rs line 50)
convert_gr ==
    /\ "gr" \notin conversion.called
    /\ conversion' =
           [conversion EXCEPT
               !.called = @ \cup {"gr"},
               !.gr = try_to_map_angle(conversion.rain, conversion.r,
                                       conversion.integral)]
    /\ UNCHANGED outsideConversion

\* the closure of the other branch converts the ray (scene.rs lines 69-70)
convert_no_gr ==
    /\ "no_gr" \notin conversion.called
    /\ conversion' =
           [conversion EXCEPT
               !.called = @ \cup {"no_gr"},
               !.no_gr = try_to_map_angle_no_gr(conversion.rain, conversion.r)]
    /\ UNCHANGED outsideConversion

ConversionNext ==
    \/ convert_gr
    \/ convert_no_gr

(***************************************************************************)
(* Cameras (src/src/camera.rs)                                             *)
(* A unit vector is held as the shortest integer vector of its direction,  *)
(* a vector with NaN components as NaNVector.                              *)
(***************************************************************************)
\* what look_at never touches
outsideCamera == <<working, working_lock, previous_render,
                   previous_render_lock, previous_scene_resolution,
                   ui, displayed, tasks, start_frame, end_frame,
                   current_frame, keyframes, call, output_path,
                   rendering, progress, cancel_sender, exports,
                   panel, queue, queue_lock, worker_working, channel,
                   park_token, worker, requester, render_settings,
                   buf, pixels, pool, image, conversion,
                   environment,
                   diver,
                   animating,
                   diver_edit,
                   preview_start,
                   playback>>

Components == (-MaxComponent)..MaxComponent

\* the vectors handed to look_at
Vectors == Components \X Components \X Components

Vec(v) == [nan |-> FALSE, v |-> v]

\* a vector all of whose components are NaN
NaNVector == [nan |-> TRUE, v |-> <<0, 0, 0>>]

Abs(n) == IF n < 0 THEN -n ELSE n

RECURSIVE Gcd(_, _)
Gcd(a, b) == IF b = 0 THEN Abs(a) ELSE Gcd(b, a % Abs(b))

\* Vector3::normalize: the vector divided by its norm, NaN in every
\* component when the norm is 0
Normalize(a) ==
    IF a.nan \/ a.v = <<0, 0, 0>>
    THEN NaNVector
    ELSE LET g == Gcd(Gcd(a.v[1], a.v[2]), a.v[3])
         IN  Vec(<<a.v[1] \div g, a.v[2] \div g, a.v[3] \div g>>)

\* unary minus on a vector
Neg(a) == IF a.nan THEN NaNVector ELSE Vec(<<-a.v[1], -a.v[2], -a.v[3]>>)

\* Vector3::cross
Cross(a, b) ==
    IF a.nan \/ b.nan
    THEN NaNVector
    ELSE Vec(<<a.v[2] * b.v[3] - a.v[3] * b.v[2],
               a.v[3] * b.v[1] - a.v[1] * b.v[3],
               a.v[1] * b.v[2] - a.v[2] * b.v[1]>>)

\* the cross product of two unit vectors at a right angle, a unit vector
UnitCross(a, b) ==
    IF Cross(a, b).nan \/ Cross(a, b).v = <<0, 0, 0>>
    THEN Cross(a, b)
    ELSE Normalize(Cross(a, b))

\* Rotation3::from_basis_unchecked(&[x, y, z]): the columns, unchecked
from_basis_unchecked(x, y, z) == [x |-> x, y |-> y, z |-> z]

\* Rotation3::default(): the identity
RotationDefault == from_basis_unchecked(Vec(<<1, 0, 0>>), Vec(<<0, 1, 0>>), Vec(<<0, 0, 1>>))

\* look_at of both cameras (lines 68-83 and 182-197), on the matrix of the
\* camera: the matrix it leaves and whether the debug assertion failed
LookAt(inverse_view_matrix, dir, up, debug_assertions) ==
    LET z == Neg(Normalize(Vec(dir)))
        x == Normalize(Cross(Vec(up), z))
        y == UnitCross(z, x)
    IN  IF debug_assertions /\ x.nan
        THEN [inverse_view_matrix |-> inverse_view_matrix, panicked |-> TRUE]
        ELSE [inverse_view_matrix |-> from_basis_unchecked(x, y, z),
              panicked |-> FALSE]

\* PerspectiveCamera::default() and EquirectangularCamera::default(): the
\* matrix after their look_at
CameraDefaultMatrix ==
    LookAt(RotationDefault, <<0, 0, 1>>, <<0, 1, 0>>, FALSE).inverse_view_matrix

Cameras == {"Perspective", "Equirectangular"}

\* a default camera of either kind in a build with or without debug
\* assertions, and the arguments look_at is about to be called with
CameraInputs ==
    [kind : Cameras, inverse_view_matrix : {CameraDefaultMatrix},
     debug_assertions : BOOLEAN, dir : Vectors, up : Vectors,
     pc : {"call"}]

\* PerspectiveCamera::look_at
perspective_look_at ==
    /\ camera.kind = "Perspective"
    /\ camera.pc = "call"
    /\ LET r == LookAt(camera.inverse_view_matrix, camera.dir, camera.up,
                       camera.debug_assertions)
       IN  camera' = [camera EXCEPT
                         !.inverse_view_matrix = r.inverse_view_matrix,
                         !.pc = IF r.panicked THEN "panicked" ELSE "returned"]
    /\ UNCHANGED outsideCamera

\* EquirectangularCamera::look_at
equirectangular_look_at ==
    /\ camera.kind = "Equirectangular"
    /\ camera.pc = "call"
    /\ LET r == LookAt(camera.inverse_view_matrix, camera.dir, camera.up,
                       camera.debug_assertions)
       IN  camera' = [camera EXCEPT
                         !.inverse_view_matrix = r.inverse_view_matrix,
                         !.pc = IF r.panicked THEN "panicked" ELSE "returned"]
    /\ UNCHANGED outsideCamera

CameraNext ==
    \/ perspective_look_at
    \/ equirectangular_look_at

(***************************************************************************)
(* ImageEnvironment (src/src/environment.rs)                               *)
(* A u32 is held as its two 16-bit halves.                                 *)
(***************************************************************************)
\* what ImageEnvironment::new never touches
outsideEnvironment == <<working, working_lock, previous_render,
                        previous_render_lock,
                        previous_scene_resolution, ui, displayed,
                        tasks, start_frame, end_frame, current_frame,
                        keyframes, call, output_path, rendering,
                        progress, cancel_sender, exports, panel,
                        queue, queue_lock, worker_working, channel,
                        park_token, worker, requester,
                        render_settings, buf, pixels, pool, image,
                        conversion, camera,
                        diver,
                        animating,
                        diver_edit,
                        preview_start,
                        playback>>

\* 2^16
HalfWord == 65536

\* the u32 of value hi * 2^16 + lo
U32(hi, lo) == [hi |-> hi, lo |-> lo]

\* the product of a u32 and a small factor, before it is cut to 32 bits: its
\* low half, and everything above it
U32Product(a, k) ==
    [lo |-> (a.lo * k) % HalfWord,
     hi |-> a.hi * k + ((a.lo * k) \div HalfWord)]

\* whether the product overflows u32
U32Overflows(a, k) == U32Product(a, k).hi >= HalfWord

\* the product cut to 32 bits, which a build without overflow checks computes
U32WrappingMul(a, k) == U32(U32Product(a, k).hi % HalfWord, U32Product(a, k).lo)

\* the widths and heights of the images handed in: small ones, and ones from
\* 2^31 up
Dimensions ==
    {U32(0, k) : k \in 0..MaxDimension} \cup
    {U32(HalfWord \div 2, k) : k \in 0..MaxDimension}

\* ImageEnvironment::new on an image of this width and height: 2 * height
\* panics on overflow in a build with overflow checks and wraps in one without
ImageEnvironmentNew(width, height, overflow_checks) ==
    IF overflow_checks /\ U32Overflows(height, 2)
    THEN "panic"
    ELSE IF width = U32WrappingMul(height, 2)
         THEN "Ok"
         ELSE "NotEquirectangularImage"

\* an image, the build, and no call yet
EnvironmentInputs ==
    [width : Dimensions, height : Dimensions, overflow_checks : BOOLEAN,
     result : {"none"}]

\* ImageEnvironment::new(image)
image_environment_new ==
    /\ environment.result = "none"
    /\ environment' =
           [environment EXCEPT
               !.result = ImageEnvironmentNew(environment.width, environment.height,
                                              environment.overflow_checks)]
    /\ UNCHANGED outsideEnvironment

EnvironmentNext == image_environment_new

(***************************************************************************)
(* The diver under BHDiver::update (src/src/app.rs lines 75-121, 216-218)  *)
(* Radii are in units of M, proper times in quarters of M.                 *)
(***************************************************************************)
\* what the diver controls never touch
outsideDiver == <<working, working_lock, previous_render,
                  previous_render_lock, previous_scene_resolution,
                  ui, displayed, tasks, start_frame, end_frame,
                  current_frame, keyframes, call, output_path,
                  rendering, progress, cancel_sender, exports, panel,
                  queue, queue_lock, worker_working, channel,
                  park_token, worker, requester, render_settings,
                  buf, pixels, pool, image, conversion, camera,
                  environment,
                  preview_start,
                  playback>>

\* proper times are counted in units of M / TimeScale
TimeScale == 4

\* the largest n whose square is at most x
ISqrt(x) == CHOOSE n \in 0..x : n * n <= x /\ (n + 1) * (n + 1) > x

\* Diver::final_time: (sqrt(2) / 3) * r_init^(3/2), rounded down
final_time(d) ==
    ISqrt((2 * TimeScale * TimeScale * d.r_init * d.r_init * d.r_init) \div 9)

Min(a, b) == IF a < b THEN a ELSE b

Max(a, b) == IF a > b THEN a ELSE b

\* Diver::time_step: the time advanced by dt and clamped to final_time
time_step(d, dt) == [d EXCEPT !.t = Min(d.t + dt, final_time(d))]

\* what the user enters into the initial radius field in one update: nothing,
\* or a number
RadiusInputs == {None} \cup {Some(r) : r \in (-1)..MaxRadius}

\* what the user enters into the time field in one update: nothing, or a number
TimeInputs == {None} \cup {Some(t) : t \in (-1)..(final_time([r_init |-> MaxRadius]) + 1)}

\* stable_dt * animation_speed of one update
Dts == 1..MaxDt

\* lines 75-83: the initial radius field: egui's DragValue takes the number
\* the user entered, or else the old value, clamps it to 0..=f64::MAX and
\* writes it back
InitialRadiusField(d, input) ==
    [d EXCEPT !.r_init = Max(IF input = None THEN d.r_init ELSE input[1], 0)]

\* the time field without its clamp_range
TimeField_unclamped(d, input) ==
    [d EXCEPT !.t = IF input = None THEN d.t ELSE input[1]]

\* lines 102-108: the time field: the number the user entered, or else the
\* old value, clamped to f64::MIN..=final_time and written back
TimeField(d, input) ==
    [d EXCEPT !.t = Min(IF input = None THEN d.t ELSE input[1], final_time(d))]

\* lines 91-99: the diver after the time step of an update, if animating
Stepped(d, dt) == IF animating THEN time_step(d, dt) ELSE d

\* Scene::default() as far as the diver goes: released at some radius, t = 0
DiverDefault ==
    /\ diver \in [r_init : 0..MaxRadius, t : {0}]
    /\ animating = FALSE
    /\ diver_edit = [lowered |-> FALSE, clamped |-> FALSE]

\* one call of BHDiver::update: the initial radius field, the time step, the
\* time field, the animate button and the space bar
update(radius_input, dt, time_input, button, space) ==
    LET d1 == InitialRadiusField(diver, radius_input)
        d2 == Stepped(d1, dt)
        d3 == TimeField(d2, time_input)
        still == animating /\ d2.t # final_time(d2)
    IN  /\ diver' = d3
        /\ animating' = ((still # button) # space)
        /\ diver_edit' = [lowered |-> d1.r_init < diver.r_init,
                          clamped |-> time_input = None /\ d3.t # d2.t]
        /\ UNCHANGED outsideDiver

DiverNext ==
    \E radius_input \in RadiusInputs, dt \in Dts, time_input \in TimeInputs,
       button \in BOOLEAN, space \in BOOLEAN :
        update(radius_input, dt, time_input, button, space)

(***************************************************************************)
(* Timeline: the preview playback (src/src/timeline.rs lines 52-64, 302-308)*)
(***************************************************************************)
\* what the playback never touches
outsidePlayback == <<working, working_lock, previous_render,
                     previous_render_lock, previous_scene_resolution,
                     ui, displayed, tasks, start_frame, end_frame,
                     keyframes, call, output_path, rendering,
                     progress, cancel_sender, exports, panel, queue,
                     queue_lock, worker_working, channel, park_token,
                     worker, requester, render_settings, buf, pixels,
                     pool, image, conversion, camera, environment,
                     diver, animating, diver_edit>>

\* i32::clamp
Clamp(x, lo, hi) == IF x < lo THEN lo ELSE IF x > hi THEN hi ELSE x

\* the times ui.input(|r| r.time) of the updates from now on, counted in
\* frames
Times(now) == now..MaxElapsed

\* Timeline::start_preview, in an update at the time now
start_preview(now) ==
    /\ playback.pc = "running"
    /\ preview_start = None
    /\ LET clamped == Clamp(current_frame, start_frame, end_frame)
           frame == IF clamped = end_frame THEN start_frame ELSE clamped
       IN  /\ current_frame' = frame
           /\ preview_start' = Some(<<frame, now>>)
    /\ playback' = [playback EXCEPT !.time = now]
    /\ UNCHANGED outsidePlayback

\* Timeline::stop_preview, in an update at the time now
stop_preview(now) ==
    /\ playback.pc = "running"
    /\ preview_start # None
    /\ preview_start' = None
    /\ current_frame' = Clamp(current_frame, start_frame, end_frame)
    /\ playback' = [playback EXCEPT !.time = now]
    /\ UNCHANGED outsidePlayback

\* Timeline::show, lines 302-308, in an update at the time now with
\* preview_start Some((start_frame, start_time)): the frames elapsed are
\* ((time - start_time) * fps) as i32; rem_euclid panics on a zero divisor
preview_update(now) ==
    /\ playback.pc = "running"
    /\ preview_start # None
    /\ IF end_frame - start_frame = 0
       THEN /\ playback' = [pc |-> "panicked", time |-> now]
            /\ UNCHANGED current_frame
       ELSE /\ current_frame' =
                   (((now - preview_start[1][2]) + preview_start[1][1])
                        % (end_frame - start_frame)) + start_frame
            /\ playback' = [playback EXCEPT !.time = now]
    /\ UNCHANGED preview_start
    /\ UNCHANGED outsidePlayback

PlaybackNext ==
    \/ \E now \in Times(playback.time) : start_preview(now)
    \/ \E now \in Times(playback.time) : stop_preview(now)
    \/ \E now \in Times(playback.time) : preview_update(now)

(***************************************************************************)
(* Specifications                                                          *)
(***************************************************************************)
\* no call of Scene::render is under way: one on the default settings of the
\* preview has returned
SceneRenderIdle ==
    /\ render_settings = [x |-> 1, y |-> 1, super_sampling |-> None]
    /\ buf = [ImageBufferNew(1, 1) EXCEPT !.written[<<0, 0>>] = 1]
    /\ pixels = 1
    /\ pool = [k \in PoolThreads |-> None]
    /\ image = Some([width |-> 1, height |-> 1])

\* no ray is being converted: the ray along the axis at the default radius
\* was, in both modes
ConversionIdle ==
    conversion = [rain |-> [theta |-> 0, phi |-> 0], r |-> 3, integral |-> 0,
                  called |-> {"gr", "no_gr"}, gr |-> None, no_gr |-> None]

\* the default camera, its look_at having returned
CameraIdle ==
    camera = [kind |-> "Perspective", inverse_view_matrix |-> CameraDefaultMatrix,
              debug_assertions |-> FALSE, dir |-> <<0, 0, 1>>, up |-> <<0, 1, 0>>,
              pc |-> "returned"]

\* the environment of a 2 by 1 image has been built
EnvironmentIdle ==
    environment = [width |-> U32(0, 2), height |-> U32(0, 1),
                   overflow_checks |-> FALSE, result |-> "Ok"]

\* the diver of the default scene, as released
DiverIdle ==
    /\ diver = [r_init |-> MaxRadius, t |-> 0]
    /\ animating = FALSE
    /\ diver_edit = [lowered |-> FALSE, clamped |-> FALSE]

\* no preview is playing
PlaybackIdle ==
    /\ preview_start = None
    /\ playback = [pc |-> "running", time |-> 0]

\* BHDiver::default(): the preview manager under the UI loop and its tasks
PreviewInit ==
    /\ PreviewManagerDefault
    /\ TimelineDefault
    /\ RendererDefault
    /\ RenderWorkerNew
    /\ SceneRenderIdle
    /\ ConversionIdle
    /\ CameraIdle
    /\ EnvironmentIdle
    /\ DiverIdle
    /\ PlaybackIdle

SpecPreview == PreviewInit /\ [][PreviewNext]_vars

\* the preview manager under the updates of the application
SpecUiLoop == PreviewInit /\ [][UiLoopNext]_vars

\* the arguments Timeline::new is called with
StartFrames == {1}

EndFrames == {MaxFrame}

\* a timeline built by Timeline::new, under the calls of its owner
TimelineInit ==
    /\ PreviewManagerDefault
    /\ \E start \in StartFrames, end \in EndFrames : TimelineNew(start, end)
    /\ RendererDefault
    /\ RenderWorkerNew
    /\ SceneRenderIdle
    /\ ConversionIdle
    /\ CameraIdle
    /\ EnvironmentIdle
    /\ DiverIdle
    /\ PlaybackIdle

SpecTimeline == TimelineInit /\ [][TimelineNext]_vars

\* the export panel under the clicks of the user and the export threads
RendererInit ==
    /\ PreviewManagerDefault
    /\ TimelineDefault
    /\ RendererDefault
    /\ RenderWorkerNew
    /\ SceneRenderIdle
    /\ ConversionIdle
    /\ CameraIdle
    /\ EnvironmentIdle
    /\ DiverIdle
    /\ PlaybackIdle

SpecRenderer == RendererInit /\ [][RendererNext]_vars

\* a RenderWorker and its owner making rounds of render() and recv(), as the
\* test of render_worker.rs does
WorkerInit ==
    /\ PreviewManagerDefault
    /\ TimelineDefault
    /\ RendererDefault
    /\ RenderWorkerNew
    /\ SceneRenderIdle
    /\ ConversionIdle
    /\ CameraIdle
    /\ EnvironmentIdle
    /\ DiverIdle
    /\ PlaybackIdle

SpecWorker == WorkerInit /\ [][WorkerNext]_vars

\* a RenderWorker and its owner calling render() and recv() in any order,
\* the worker's park() returning with or without an unpark()
SpecWorkerWakeups == WorkerInit /\ [][WorkerWakeupsNext]_vars

\* one call of Scene::render, on any of the render settings
SceneRenderInit ==
    /\ PreviewManagerDefault
    /\ TimelineDefault
    /\ RendererDefault
    /\ RenderWorkerNew
    /\ SceneRenderCalled
    /\ ConversionIdle
    /\ CameraIdle
    /\ EnvironmentIdle
    /\ DiverIdle
    /\ PlaybackIdle

SpecSceneRender == SceneRenderInit /\ [][SceneRenderNext]_vars

\* one ray, converted in both modes
ConversionInit ==
    /\ PreviewManagerDefault
    /\ TimelineDefault
    /\ RendererDefault
    /\ RenderWorkerNew
    /\ SceneRenderIdle
    /\ conversion \in ConversionInputs
    /\ CameraIdle
    /\ EnvironmentIdle
    /\ DiverIdle
    /\ PlaybackIdle

SpecConversion == ConversionInit /\ [][ConversionNext]_vars

\* one call of look_at on a default camera
CameraInit ==
    /\ PreviewManagerDefault
    /\ TimelineDefault
    /\ RendererDefault
    /\ RenderWorkerNew
    /\ SceneRenderIdle
    /\ ConversionIdle
    /\ camera \in CameraInputs
    /\ EnvironmentIdle
    /\ DiverIdle
    /\ PlaybackIdle

SpecCamera == CameraInit /\ [][CameraNext]_vars

\* one call of ImageEnvironment::new on an image of any of the sizes
EnvironmentInit ==
    /\ PreviewManagerDefault
    /\ TimelineDefault
    /\ RendererDefault
    /\ RenderWorkerNew
    /\ SceneRenderIdle
    /\ ConversionIdle
    /\ CameraIdle
    /\ environment \in EnvironmentInputs
    /\ DiverIdle
    /\ PlaybackIdle

SpecEnvironment == EnvironmentInit /\ [][EnvironmentNext]_vars

\* the diver of the current scene under the updates of the application
DiverInit ==
    /\ PreviewManagerDefault
    /\ TimelineDefault
    /\ RendererDefault
    /\ RenderWorkerNew
    /\ SceneRenderIdle
    /\ ConversionIdle
    /\ CameraIdle
    /\ EnvironmentIdle
    /\ DiverDefault
    /\ PlaybackIdle

SpecDiver == DiverInit /\ [][DiverNext]_vars

\* a timeline built by Timeline::new with start_frame <= end_frame, its
\* current frame moved anywhere by the current frame field, under the preview
\* playback
PlaybackInit ==
    /\ PreviewManagerDefault
    /\ \E start \in Frames, end \in Frames :
           /\ start <= end
           /\ start_frame = start
           /\ end_frame = end
           /\ keyframes = (start :> SceneDefault)
           /\ call = NoCall
    /\ current_frame \in (-1)..(MaxFrame + 1)
    /\ RendererDefault
    /\ RenderWorkerNew
    /\ SceneRenderIdle
    /\ ConversionIdle
    /\ CameraIdle
    /\ EnvironmentIdle
    /\ DiverIdle
    /\ PlaybackIdle

SpecPlayback == PlaybackInit /\ [][PlaybackNext]_vars

(***************************************************************************)
(* Properties of the preview manager (checked under SpecPreview)           *)
(***************************************************************************)
LiveTasks == {i \in DOMAIN tasks : tasks[i].pc # "done"}

SavedTasks == {i \in DOMAIN tasks : tasks[i].saved}

\* C1: at most one preview render task runs at any time: a task is spawned
\* only by the call that flipped working from false to true, and working
\* stays true until that task has finished.
C1_AtMostOneRender ==
    /\ Cardinality(LiveTasks) + (IF ui.pc = "nr_spawn" THEN 1 ELSE 0) <= 1
    /\ (LiveTasks # {} \/ ui.pc = "nr_spawn") => working

\* a second task is rendering and a call made meanwhile was dropped
C1_Witness ==
    /\ Len(tasks) >= 2
    /\ tasks[2].pc = "render"
    /\ ui.pc = "idle"
    /\ ui.ret = "busy"

UiRequest == Some(<<ui.scene, ui.resolution>>)

\* C2: new_render starts a background render exactly when the request differs
\* from last_request and working is found clear; a call with the same request
\* or one that finds working set returns without spawning and leaves working,
\* last_request and last_result as they are.
C2_NewRenderEffect ==
    [][/\ (ui.pc = "idle" /\ ui'.pc = "idle" /\ ui' # ui) =>
              /\ Some(<<ui'.scene, ui'.resolution>>) = previous_scene_resolution
              /\ UNCHANGED <<working, previous_scene_resolution, previous_render, tasks>>
       /\ (ui.pc = "idle" /\ ui'.pc = "nr_lock") =>
              Some(<<ui'.scene, ui'.resolution>>) # previous_scene_resolution
       /\ (ui.pc \in {"nr_lock", "nr_locked", "nr_spawn"}) =>
              UiRequest # previous_scene_resolution
       /\ (ui.pc = "nr_locked" /\ ui' # ui) =>
              IF working
              THEN /\ ui'.pc = "idle"
                   /\ UNCHANGED <<working, previous_scene_resolution, previous_render, tasks>>
              ELSE /\ ui'.pc = "nr_spawn"
                   /\ working'
       /\ (ui.pc = "nr_spawn" /\ ui' # ui) =>
              /\ Len(tasks') = Len(tasks) + 1
              /\ tasks'[Len(tasks')].scene = ui.scene
              /\ tasks'[Len(tasks')].resolution = ui.resolution
              /\ previous_scene_resolution' = UiRequest
       /\ (Len(tasks') # Len(tasks)) => ui.pc = "nr_spawn"
      ]_vars

\* the request just made equals last_request and returned at once, while the
\* render of that request is still running
C2_Witness ==
    /\ ui.pc = "idle"
    /\ ui.ret = "same"
    /\ LiveTasks # {}
    /\ UiRequest = previous_scene_resolution

\* C3 as stated: the task publishes last_result and clears working in one
\* atomic step, so no state can be observed in which last_result already
\* holds the new render while working is still true.
C3_AtomicPublish ==
    \A i \in DOMAIN tasks :
        (/\ tasks[i].pc # "done"
         /\ previous_render # None
         /\ previous_render = tasks[i].render
         /\ previous_render_lock = Free
         /\ working_lock = Free) => ~working

\* C3 amended: the task publishes last_result before it clears working (in
\* two critical sections), so whenever working is clear last_result is the
\* render of last_request.
C3_PublishBeforeClear ==
    ~working =>
        IF previous_scene_resolution = None
        THEN previous_render = None
        ELSE /\ previous_render # None
             /\ <<previous_render[1].scene, previous_render[1].resolution>>
                    = previous_scene_resolution[1]

\* the second task has published and cleared working
C3_Witness ==
    /\ ~working
    /\ Len(tasks) >= 2
    /\ tasks[2].pc = "done"
    /\ previous_render # None
    /\ previous_render[1].task = 2

\* C4: when last_result is present it is the render of an accepted request,
\* namely of the latest task that has published; no task spawned earlier
\* overwrites it, and a dropped request produces no result.
C4_LatestResult ==
    previous_render # None =>
        LET r == previous_render[1] IN
        /\ r.task \in SavedTasks
        /\ r.scene = tasks[r.task].scene
        /\ r.resolution = tasks[r.task].resolution
        /\ \A j \in SavedTasks : j <= r.task

\* the result of the second accepted request replaced the first one's, after
\* a request was dropped
C4_Witness ==
    /\ previous_render # None
    /\ previous_render[1].task = 2
    /\ displayed # None
    /\ displayed[1].task = 1
    /\ ui.ret = "busy"

\* C5: a task holds neither mutex while it renders: a task that owns the
\* previous_render mutex is at the assignment of line 83, one that owns the
\* working mutex at the assignment of line 85.
C5_NoLockAcrossRender ==
    \A i \in DOMAIN tasks :
        /\ tasks[i].pc \in {"start", "render"} =>
               (previous_render_lock # i /\ working_lock # i)
        /\ previous_render_lock = i => tasks[i].pc = "saving"
        /\ working_lock = i => tasks[i].pc = "updating"

\* the UI thread is inside with_render, holding the lock, while a task renders
C5_Witness ==
    /\ ui.pc = "wr_locked"
    /\ \E i \in DOMAIN tasks : tasks[i].pc = "render"

(***************************************************************************)
(* Properties of the timeline (checked under SpecTimeline)                 *)
(***************************************************************************)
Keys == DOMAIN keyframes

\* C6: after any sequence of timeline calls the keyframe map holds at least
\* one keyframe, so get_scene never reaches its unreachable branch.
C6_AtLeastOneKeyframe ==
    /\ Keys # {}
    /\ \A f \in Frames : get_scene(keyframes, f) # Unreachable
    /\ call.op = "get_scene" => call.scene # Unreachable

\* a keyframe was deleted and exactly one keyframe is left
C6_Witness ==
    /\ call.op = "delete_keyframe"
    /\ call.frame \notin Keys
    /\ Cardinality(Keys) = 1

\* C7: get_scene(f) at a keyframe f returns exactly the scene stored at f,
\* and get_scene does not modify the timeline.
C7_KeyframeSnap ==
    [][call'.op = "get_scene" =>
          /\ UNCHANGED <<start_frame, end_frame, current_frame, keyframes>>
          /\ call'.frame \in Keys => call'.scene = keyframes[call'.frame]
      ]_vars

\* get_scene was called at a keyframe whose neighbours on both sides would
\* interpolate to another scene
C7_Witness ==
    /\ call.op = "get_scene"
    /\ call.frame \in Keys
    /\ call.scene = keyframes[call.frame]
    /\ \E l \in Keys, r \in Keys :
           /\ l < call.frame
           /\ call.frame < r
           /\ interpolate(keyframes[l], keyframes[r], call.frame - l, r - l) # call.scene

\* C8: at a frame f that is not a keyframe, get_scene(f) interpolates the two
\* keyframes adjacent to f with factor (f - L) / (R - L) when there are
\* keyframes on both sides, and is the scene of the first (last) keyframe when
\* f lies before (after) all keyframes.
C8_Interpolation ==
    (call.op = "get_scene" /\ call.frame \notin Keys) =>
        LET f == call.frame
            below == {k \in Keys : k < f}
            above == {k \in Keys : k > f}
        IN  /\ (below # {} /\ above # {}) =>
                   \E L \in below, R \in above :
                       /\ ~ \E k \in Keys : (L < k /\ k < f) \/ (f < k /\ k < R)
                       /\ call.scene = interpolate(keyframes[L], keyframes[R], f - L, R - L)
            /\ (below = {} /\ above # {}) =>
                   \E R \in above :
                       /\ \A k \in Keys : R <= k
                       /\ call.scene = keyframes[R]
            /\ (below # {} /\ above = {}) =>
                   \E L \in below :
                       /\ \A k \in Keys : k <= L
                       /\ call.scene = keyframes[L]

\* get_scene was called between two keyframes, with a farther keyframe on the
\* left whose scene would give another interpolation
C8_Witness ==
    /\ call.op = "get_scene"
    /\ call.frame \notin Keys
    /\ \E far \in Keys, l \in Keys, r \in Keys :
           /\ far < l
           /\ l < call.frame
           /\ call.frame < r
           /\ interpolate(keyframes[far], keyframes[r], call.frame - far, r - far)
                  # call.scene

\* C9: set_scene_if_different(f, s) (also as called by with_current_scene)
\* leaves the keyframe map unchanged when s equals get_scene(f), otherwise
\* makes f a keyframe holding s and touches no other keyframe; get_scene(f)
\* equals s afterwards in both cases.
C9_SetSceneIfDifferent ==
    [][call'.op \in {"set_scene_if_different", "with_current_scene"} =>
          LET f == call'.frame
              s == call'.scene
          IN  /\ s = get_scene(keyframes, f) => keyframes' = keyframes
              /\ s # get_scene(keyframes, f) =>
                     /\ DOMAIN keyframes' = Keys \cup {f}
                     /\ keyframes'[f] = s
                     /\ \A k \in Keys \ {f} : keyframes'[k] = keyframes[k]
              /\ get_scene(keyframes', f) = s
      ]_vars

\* an edit that left the interpolated scene of a frame between two keyframes
\* as it was created no keyframe there
C9_Witness ==
    /\ call.op = "with_current_scene"
    /\ call.frame \notin Keys
    /\ call.scene.fov \notin {DefaultFov, OtherFov}
    /\ call.scene = get_scene(keyframes, call.frame)

\* C10: to_animation returns end_frame - start_frame + 1 frames when
\* start_frame <= end_frame, with indices start_frame, start_frame + 1, ...,
\* each holding get_scene of its index (the one keyframe's scene when there is
\* a single keyframe), and does not modify the timeline.
C10_ToAnimation ==
    [][call'.op = "to_animation" =>
          LET frames == call'.frames IN
          /\ UNCHANGED <<start_frame, end_frame, current_frame, keyframes>>
          /\ start_frame <= end_frame => Len(frames) = end_frame - start_frame + 1
          /\ \A i \in 1..Len(frames) :
                 /\ frames[i].frame = start_frame + i - 1
                 /\ frames[i].scene = get_scene(keyframes, frames[i].frame)
                 /\ \A k \in Keys : Keys = {k} => frames[i].scene = keyframes[k]
      ]_vars

\* an animation over several frames, one of them interpolated
C10_Witness ==
    /\ call.op = "to_animation"
    /\ start_frame < end_frame
    /\ Len(call.frames) = end_frame - start_frame + 1
    /\ \E i \in 1..Len(call.frames) :
           /\ call.frames[i].frame \notin Keys
           /\ call.frames[i].scene.fov \notin {DefaultFov, OtherFov}

\* C11 as stated: delete_keyframe(f) with more than one keyframe removes
\* exactly the keyframe at f; deleting the sole keyframe leaves exactly one
\* keyframe, holding the default scene.
C11_ReseedDefault ==
    [][call'.op = "delete_keyframe" =>
          LET f == call'.frame IN
          /\ Cardinality(Keys) > 1 =>
                 /\ DOMAIN keyframes' = Keys \ {f}
                 /\ \A k \in Keys \ {f} : keyframes'[k] = keyframes[k]
          /\ Keys = {f} =>
                 /\ Cardinality(DOMAIN keyframes') = 1
                 /\ \A k \in DOMAIN keyframes' : keyframes'[k] = SceneDefault
      ]_vars

\* C11 amended: delete_keyframe(f) with more than one keyframe removes
\* exactly the keyframe at f and changes nothing else; with a sole keyframe
\* (at f or elsewhere) it leaves exactly one keyframe, at start_frame, holding
\* the scene the sole keyframe held, and sets current_frame to start_frame.
C11_DeleteKeyframe ==
    [][call'.op = "delete_keyframe" =>
          LET f == call'.frame IN
          /\ UNCHANGED <<start_frame, end_frame>>
          /\ Cardinality(Keys) > 1 =>
                 /\ DOMAIN keyframes' = Keys \ {f}
                 /\ \A k \in Keys \ {f} : keyframes'[k] = keyframes[k]
                 /\ current_frame' = current_frame
          /\ Cardinality(Keys) = 1 =>
                 /\ DOMAIN keyframes' = {start_frame}
                 /\ \A k \in Keys : keyframes'[start_frame] = keyframes[k]
                 /\ current_frame' = start_frame
      ]_vars

\* the sole keyframe, holding another scene than the default one, was deleted
C11_Witness ==
    /\ call.op = "delete_keyframe"
    /\ call.to = 1
    /\ Keys = {start_frame}
    /\ keyframes[start_frame] # SceneDefault

\* C12: move_keyframe(from, to) with a keyframe at from leaves at to the
\* scene that was stored at from, no keyframe at from (unless from = to) and
\* every other keyframe as it was; without a keyframe at from it leaves the
\* timeline unchanged, a keyframe at to included.
C12_MoveKeyframe ==
    [][call'.op = "move_keyframe" =>
          LET from == call'.frame
              to == call'.to
          IN  /\ UNCHANGED <<start_frame, end_frame, current_frame>>
              /\ from \in Keys =>
                     /\ DOMAIN keyframes' = (Keys \ {from}) \cup {to}
                     /\ keyframes'[to] = keyframes[from]
                     /\ \A k \in Keys \ {from, to} : keyframes'[k] = keyframes[k]
              /\ from \notin Keys => keyframes' = keyframes
      ]_vars

\* a keyframe was moved to another frame, and a keyframe holding a different
\* scene stayed where it was
C12_Witness ==
    /\ call.op = "move_keyframe"
    /\ call.frame # call.to
    /\ call.frames # None
    /\ call.frame \notin Keys
    /\ keyframes[call.to] = call.frames[1]
    /\ \E k \in Keys \ {call.to} : keyframes[k] # keyframes[call.to]

(***************************************************************************)
(* Properties of the export renderer (checked under SpecRenderer)          *)
(***************************************************************************)
\* the number a string of decimal digits denotes
RECURSIVE Value(_)
Value(digits) ==
    IF digits = <<>> THEN 0 ELSE 10 * Value(SubSeq(digits, 1, Len(digits) - 1)) + digits[Len(digits)]

\* the animation threads inside their loop or just out of it
InAnimation == {e \in Exports : e.kind = "animation" /\ e.animation # <<>>}

\* C13: while render_animation's thread works on an animation of K frames,
\* the files it has written are exactly those of the ordinals 1..j in
\* ascending order, j <= K, the ordinal being the position of the frame in
\* the animation and padded with zeros to at least 5 digits; after a cancel
\* or a save error this still holds, and an export that reached the end of
\* the animation has written exactly 1..K.
C13_AscendingOrdinals ==
    \A e \in InAnimation :
        LET j == Len(e.written)
            K == Len(e.animation)
        IN  /\ j <= K
            /\ j = IF e.pc = "progress" THEN e.i + 1 ELSE e.i
            /\ \A k \in 1..j :
                   /\ Value(e.written[k]) = k
                   /\ Len(e.written[k]) >= 5
            /\ (e.pc = "clear_progress" /\ e.failed = 0 /\ e.i = K) => j = K

\* an export of frames whose timeline indices start at 2 was cancelled after
\* it had written its first file
C13_Witness ==
    \E e \in InAnimation :
        /\ e.pc = "clear_progress"
        /\ e.failed = 0
        /\ e.i < Len(e.animation)
        /\ Len(e.written) = 1
        /\ e.animation[1].frame # 1

\* C14: the cancel channel is checked at each frame boundary before the
\* frame is rendered: with a cancel message waiting when the thread is at
\* the head of its loop, the thread renders no further frame, and with one
\* waiting at the check it writes no further file.
C14_CancelBeforeRender ==
    [][\A e \in InAnimation :
           /\ (e.pc = "next" /\ e.queue > 0) =>
                  LET f == [e EXCEPT !.pc = "check", !.rendered = @ + 1] IN
                  CopiesIn(f, exports') <= CopiesIn(f, exports)
           /\ (e.pc = "check" /\ e.queue > 0) =>
                  LET f == [e EXCEPT !.pc = "save"] IN
                  CopiesIn(f, exports') <= CopiesIn(f, exports)
      ]_vars

\* C15: on every path out of its loop render_animation's thread ends with
\* progress = None and rendering = false: the state its last statement (line
\* 217) leaves has both.
C15_ExitClears ==
    [][\A e \in Exports :
           (e.kind = "animation" /\ e.pc = "clear_rendering") =>
               LET f == [e EXCEPT !.pc = "exit"] IN
               CopiesIn(f, exports') > CopiesIn(f, exports) =>
                   (progress' = None /\ rendering' = FALSE)
      ]_vars

\* C16: when the save of the frame with ordinal i has failed, the thread is
\* out of its loop, the files it has written are those of the ordinals below
\* i, and the failing save left progress as it was (the thread does not
\* reach the assignment of progress for frame i).
C16_SaveError ==
    [][\A f \in BagToSet(exports') :
           f.failed # 0 =>
               /\ f.pc = "clear_progress"
               /\ f.i = f.failed - 1
               /\ Len(f.written) = f.failed - 1
               /\ \A k \in 1..Len(f.written) : Value(f.written[k]) = k
               /\ CopiesIn(f, exports') > CopiesIn(f, exports) => progress' = progress
      ]_vars

\* the save of the second frame failed: the first file is there and progress
\* is that of the first frame
C16_Witness ==
    \E e \in InAnimation :
        /\ e.failed = 2
        /\ Len(e.written) = 1
        /\ progress = Some(<<0, Len(e.animation)>>)

\* C17: cancel_render leaves everything as it is when no animation export
\* was ever started (cancel_sender is None); with the Receiver alive it adds
\* exactly one message to the channel and changes neither rendering nor
\* progress; with the Receiver gone it sets rendering to false and sends
\* nothing.
C17_CancelRender ==
    [][(panel = "cancel" /\ panel' = "idle") =>
           /\ UNCHANGED <<output_path, progress, cancel_sender>>
           /\ cancel_sender = None => UNCHANGED <<rendering, exports>>
           /\ cancel_sender # None =>
                  \E e \in Connected :
                      IF e.receiver
                      THEN /\ rendering' = rendering
                           /\ exports' (-) SetToBag({[e EXCEPT !.queue = e.queue + 1]})
                                  = exports (-) SetToBag({e})
                           /\ CopiesIn([e EXCEPT !.queue = e.queue + 1], exports') = 1
                      ELSE /\ rendering' = FALSE
                           /\ exports' = exports
      ]_vars

\* a cancel message waits in the channel of an animation thread that is
\* saving a frame, and rendering is still true
C17_Witness ==
    /\ panel = "idle"
    /\ rendering
    /\ \E e \in Connected : e.pc = "save" /\ e.queue = 1

\* C18: a single-frame render is not cancellable: from render_frame until
\* its thread has rendered and saved the image rendering stays true, whatever
\* calls of cancel_render are made meanwhile.
C18_FrameNotCancellable ==
    \A e \in Exports : (e.kind = "frame" /\ e.pc = "render") => rendering

(***************************************************************************)
(* Properties of the render worker (checked under SpecWorker)              *)
(***************************************************************************)
\* C19: in sequential rounds of render() followed by receiver.recv(), every
\* request is accepted, so the owner never waits in recv() for an image that
\* nobody will send.
C19_RequestAccepted ==
    /\ requester.accepted
    /\ ~ (/\ requester.pc = "recv"
          /\ channel = <<>>
          /\ queue = <<>>
          /\ ~park_token
          /\ worker.pc = "park")

(***************************************************************************)
(* Properties of Scene::render (checked under SpecSceneRender)             *)
(***************************************************************************)
\* C20: Scene::render with resolution (w, h) and super sampling factor s (1
\* when there is none) works on a buffer of (w * s) x (h * s) pixels, writes
\* no pixel of it more than once and, by the time it returns, every pixel
\* exactly once, and returns an image of exactly w x h pixels.
C20_RenderResolution ==
    LET s == IF render_settings.super_sampling = None
             THEN 1
             ELSE render_settings.super_sampling[1]
    IN  /\ buf.width = render_settings.x * s
        /\ buf.height = render_settings.y * s
        /\ DOMAIN buf.written = (0..(buf.width - 1)) \X (0..(buf.height - 1))
        /\ \A p \in DOMAIN buf.written : buf.written[p] <= 1
        /\ image # None =>
               /\ image[1].width = render_settings.x
               /\ image[1].height = render_settings.y
               /\ \A p \in DOMAIN buf.written : buf.written[p] = 1

\* a render with super sampling factor 2 of an image that is not square has
\* returned
C20_Witness ==
    /\ image # None
    /\ render_settings.super_sampling = Some(2)
    /\ render_settings.x # render_settings.y
    /\ buf.width = 2 * image[1].width
    /\ buf.height = 2 * image[1].height
(***************************************************************************)
(* Properties of the angle conversions (checked under SpecConversion)      *)
(***************************************************************************)
\* C21: without gr the conversion returns None exactly when the polar rain
\* angle is below the critical rain angle of the radius, which is exactly when
\* the conversion with gr returns None, and outside the cone it returns the
\* input angle.
C21_NoGrShadow ==
    /\ "no_gr" \in conversion.called =>
           /\ conversion.no_gr = None <=>
                  conversion.rain.theta < critical_rain_angle(conversion.r)
           /\ conversion.no_gr # None =>
                  /\ conversion.no_gr[1].theta = conversion.rain.theta
                  /\ conversion.no_gr[1].phi = conversion.rain.phi
    /\ conversion.called = {"gr", "no_gr"} =>
           (conversion.no_gr = None <=> conversion.gr = None)

\* a ray inside the shadow cone, off the axis, was converted in both modes
C21_Witness ==
    /\ conversion.called = {"gr", "no_gr"}
    /\ conversion.rain.theta > 0
    /\ conversion.no_gr = None
    /\ conversion.gr = None

\* C24: every map angle the conversion with gr returns has its azimuth in
\* [0, 2 PI) and its polar angle in [0, PI].
C24_MapAngleNormalized ==
    ("gr" \in conversion.called /\ conversion.gr # None) =>
        /\ conversion.gr[1].phi >= 0
        /\ conversion.gr[1].phi < 2 * Pi
        /\ conversion.gr[1].theta >= 0
        /\ conversion.gr[1].theta <= Pi
(***************************************************************************)
(* Properties of the cameras (checked under SpecCamera)                    *)
(***************************************************************************)
Dot(a, b) == a.v[1] * b.v[1] + a.v[2] * b.v[2] + a.v[3] * b.v[3]

\* the columns are unit vectors at right angles to each other, in right-handed
\* order
ProperRotation(m) ==
    /\ ~m.x.nan /\ ~m.y.nan /\ ~m.z.nan
    /\ m.x.v # <<0, 0, 0>> /\ m.y.v # <<0, 0, 0>> /\ m.z.v # <<0, 0, 0>>
    /\ Dot(m.x, m.y) = 0 /\ Dot(m.y, m.z) = 0 /\ Dot(m.z, m.x) = 0
    /\ UnitCross(m.x, m.y) = m.z

\* C23: a call of look_at leaves the camera with a proper rotation or with
\* the orientation it had before the call.
C23_LookAtSafe ==
    [][camera'.pc # camera.pc =>
           \/ ProperRotation(camera'.inverse_view_matrix)
           \/ camera'.inverse_view_matrix = camera.inverse_view_matrix]_vars
(***************************************************************************)
(* Properties of ImageEnvironment::new (checked under SpecEnvironment)     *)
(***************************************************************************)
\* the width is exactly twice the height, as numbers
TwiceHeight(width, height) ==
    /\ 2 * height.hi + ((2 * height.lo) \div HalfWord) = width.hi
    /\ (2 * height.lo) % HalfWord = width.lo

\* C22: ImageEnvironment::new never panics, succeeds on every image whose
\* width is twice its height and returns NotEquirectangularImage on every
\* other image.
C22_EquirectangularOnly ==
    environment.result # "none" =>
        /\ environment.result # "panic"
        /\ environment.result = "Ok" <=>
               TwiceHeight(environment.width, environment.height)
        /\ environment.result = "NotEquirectangularImage" <=>
               ~TwiceHeight(environment.width, environment.height)
(***************************************************************************)
(* Properties of the diver (checked under SpecDiver)                       *)
(***************************************************************************)
\* C25: after every update of the application the diver has r_init >= 0 and
\* t <= final_time, also after an update that lowered r_init below what the
\* time that was set allows.
C25_DiverInvariant ==
    /\ diver.r_init >= 0
    /\ diver.t <= final_time(diver)

\* an update lowered r_init so far that the time field had to clamp the time
C25_Witness ==
    /\ diver_edit.lowered
    /\ diver_edit.clamped
    /\ diver.r_init > 0
    /\ diver.t = final_time(diver)
(***************************************************************************)
(* Properties of the preview under update (checked under SpecUiLoop)       *)
(***************************************************************************)
\* update has returned without asking for a repaint: no further update runs
\* until an input event arrives
Asleep == ui.pc = "idle" /\ ui.ret = "false"

\* C27: the UI loop never comes to rest showing anything but the render of
\* the scene it last asked for, so that with no further input event the
\* displayed result is the render of the final scene.
C27_FinalSceneDisplayed ==
    Asleep =>
        /\ displayed # None
        /\ displayed[1].scene = ui.scene
        /\ displayed[1].resolution = ui.resolution
(***************************************************************************)
(* Properties of the preview playback (checked under SpecPlayback)         *)
(***************************************************************************)
\* C29: on a timeline with start_frame <= end_frame, starting the preview and
\* applying the playback step never faults and leaves current_frame within
\* [start_frame, end_frame].
C29_PlaybackSafe ==
    /\ playback.pc # "panicked"
    /\ preview_start # None =>
           (start_frame <= current_frame /\ current_frame <= end_frame)

(***************************************************************************)
(* Further properties of the exports (checked under SpecRenderer)          *)
(***************************************************************************)
\* the export threads that have not yet cleared rendering (render.rs, lines
\* 164-170 and 187-217)
LiveExports == {e \in Exports : e.kind # "done" /\ e.pc # "exit"}

\* C26: render_frame and render_animation being called only when
\* can_render() holds, rendering is true whenever an export thread is at
\* work, and so at most one export thread is at work at any time, whatever
\* the interleaving of render_frame, render_animation, cancel_render and the
\* threads' steps.
C26_SingleExport ==
    /\ LiveExports # {} => rendering
    /\ \A e \in LiveExports : LiveExports = {e} /\ CopiesIn(e, exports) = 1

(***************************************************************************)
(* Further properties of the timeline (checked under SpecTimeline)         *)
(***************************************************************************)
\* C28: delete_keyframe(f) for a frame f that holds no keyframe leaves the
\* keyframes and current_frame as they were, however many keyframes there
\* are.
C28_DeleteAbsentKeyframe ==
    [][(call'.op = "delete_keyframe" /\ call'.frame \notin Keys)
           => (keyframes' = keyframes /\ current_frame' = current_frame)]_vars

(***************************************************************************)
(* Further properties of the render worker (checked under                  *)
(* SpecWorkerWakeups)                                                      *)
(***************************************************************************)
\* C30: the queue of the RenderWorker never holds more than one request, and
\* whenever the worker has returned from park() and goes on to dequeue, the
\* queue holds exactly one request: the debug assertion of line 59 holds and
\* queue.remove(0) never fails, whatever the interleaving of the calls of
\* render() and the wake-ups of the worker.
C30_QueueHoldsOne ==
    /\ Len(queue) <= 1
    /\ worker.pc \in {"set_working", "take"} => Len(queue) = 1
    /\ worker.pc # "panicked"

====
